---- MODULE Spec2Model ----
(***************************************************************************)
(* Verification model of the Azure blob tooling: the CSV consistency       *)
(* scripts, the Flask session machine (webapp / webapp_demo), the rename   *)
(* tool, the folder browser and the Datafeed scanners.                     *)
(*                                                                         *)
(* Strings whose characters matter to the code (blob names, search terms)  *)
(* are sequences of one-character strings; strings that the code only      *)
(* compares for equality (CSV cell values, session values) are TLA+        *)
(* strings.                                                                *)
(***************************************************************************)
EXTENDS Integers, Sequences, FiniteSets, TLC

VARIABLES
    \* ---- check_column_consistency.py / check_table_consistency.py
    script,            \* which script runs: "column" or "table"
    cpc,               \* position in the script
    df,                \* the DataFrame read from the CSV: a sequence of rows
    unique_tables,     \* check_column_consistency: df['Table_Name'].unique()
    table_analysis,    \* check_column_consistency: table name -> analysis
    consistent_tables, \* check_column_consistency: summary counter
    master_table_set,  \* check_table_consistency
    missing_data,      \* check_table_consistency: paths with issues, in order
    complete_paths,    \* check_table_consistency: complete paths, in order
    \* ---- webapp.py / webapp_demo.py: one browser session
    app,               \* which application serves: "webapp" or "demo"
    session,           \* the Flask session: a dict, key -> value
    request,           \* the request handled last
    response,          \* the response to it
    since_logout,      \* history: TRUE from /logout to the next successful login
    scan_json,         \* the JSON document held as session['scan_results']
    last_df,           \* history: the DataFrame of the last scan that stored rows
    used_state,        \* history: the state of the last successful callback since /login
    \* ---- the '30-projects' container
    blobs,             \* blob name -> [size, content]
    \* ---- datafeed_scanner.py / param_manager_scanner.py: generate_report
    scanner,           \* which scanner runs: "datafeed" or "param"
    spc,               \* position in generate_report
    datafeed_folders,  \* the list scan_for_datafeed_folders returned
    listing_failed,    \* history: the listing of the scan raised an AzureError
    folder_idx,        \* the folders of the list processed so far
    all_results,       \* the rows accumulated so far
    analysed,          \* history: the files analysed to the end, in order
    \* ---- azure_file_manager.py: get_folders_and_files
    bpc,               \* "idle" before the call, "returned" after it
    current_path,      \* the argument of the call, as the caller gave it
    ret_folders,       \* the first component of the returned tuple
    ret_files,         \* the second component of the returned tuple
    browse_error,      \* history: the listing raised an AzureError
    \* ---- simple_rename.py: main
    rpc,               \* position in main / rename_files
    search_term,       \* the search term typed by the user
    replace_term,      \* the replacement typed by the user
    results,           \* what search_and_show_results returned
    ridx,              \* the file of results that rename_files is at
    rename_results,    \* the rows rename_files has appended
    copy_pending,      \* the copy started for the current file has not finished
    original,          \* history: the container when the search listed it
    \* ---- the report CSV: export_to_csv and the three consistency scripts
    ppc,               \* "generated", "exported" or "ran"
    report_df,         \* the DataFrame generate_report returned: a sequence of rows
    csv_file,          \* the CSV file on disk: [exists, header, lines]
    reader,            \* the script that read the CSV last
    run_status,        \* how that run ended
    analysis_results,  \* validate_table_columns: the dict it returns
    \* ---- azure_file_manager.py: __init__, download_blob, upload_blob
    mpc,               \* "new", "connected", "exited" or "raised"
    mgr_env,           \* the environment variables and the credential argument
    mgr_fault,         \* what the construction runs into: [at, kind]
    exit_status,       \* the status of sys.exit, -1 while the process runs
    propagated,        \* the exception that left the method, "none" if none
    last_call,         \* the arguments and the surroundings of the last call
    returned,          \* what the last call returned: "True", "False" or "none"
    contacted,         \* the last call sent a request to the storage account
    used_blob_name,    \* the blob name the last call passed to the SDK
    \* ---- search_blob.py: search_blobs
    qpc,               \* "idle" before the call, "searched" after it
    query,             \* the arguments: [search_term, search_mode, type_filter]
    search_results,    \* the results list the call prints
    \* ---- web_config.py: WebConfig and init_app_config
    cfg_pc,            \* "env", "loaded", "started" or "failed"
    os_environ,        \* the environment variables: name -> value, None if unset
    web_config,        \* the class attributes of WebConfig
    cfg_errors,        \* the errors list of validate
    cfg_raised,        \* the exception that left init_app_config, "none" if none
    \* ---- azure_file_manager.py: main and browse_folders
    lpc,               \* "main" at the main menu, "loop" inside browse_folders, "ended"
    browse_path,       \* current_path of browse_folders
    choice,            \* the choice the loop handled last
    last_step,         \* history: the branch the last iteration took
    entered_from,      \* history: current_path when the last folder was entered
    ended_by           \* how the loop ended: "q" or the exception that left it

csvVars == <<script, cpc, df, unique_tables, table_analysis, consistent_tables,
             master_table_set, missing_data, complete_paths>>

webVars == <<app, session, request, response, since_logout, scan_json, last_df, used_state>>

scanVars == <<scanner, spc, datafeed_folders, listing_failed, folder_idx, all_results,
              analysed>>

browseVars == <<bpc, current_path, ret_folders, ret_files, browse_error>>

renameVars == <<rpc, search_term, replace_term, results, ridx, rename_results,
                copy_pending, original>>

pipeVars == <<ppc, report_df, csv_file, reader, run_status, analysis_results>>

\* the parts of the model that come after the rename tool
mgrVars == <<mpc, mgr_env, mgr_fault, exit_status, propagated, last_call, returned,
             contacted, used_blob_name>>

searchVars == <<qpc, query, search_results>>

cfgVars == <<cfg_pc, os_environ, web_config, cfg_errors, cfg_raised>>

replVars == <<lpc, browse_path, choice, last_step, entered_from, ended_by>>

extVars == <<pipeVars, mgrVars, searchVars, cfgVars, replVars>>

toolVars == <<browseVars, renameVars, extVars>>

vars == <<csvVars, webVars, blobs, scanVars, toolVars>>

(***************************************************************************)
(* Bounds of the model.                                                    *)
(***************************************************************************)
MaxRows == 3
\* the largest number of blobs in the container
MaxBlobs == 3
\* the largest number of data lines of a report CSV file
MaxCsvLines == 3

(***************************************************************************)
(* Python values shared by the parts of the model.                         *)
(***************************************************************************)
\* Python's None: an absent dict key read with .get(), a missing request arg
None == "<None>"

\* the truth value Python gives a string or None (`if x:`, `not x`)
Truthy(v) == v \notin {None, ""}

\* dict operations: d[k] = v, d.pop(k, None), d.get(k)
DictSet(d, k, v) == [x \in DOMAIN d \cup {k} |-> IF x = k THEN v ELSE d[x]]
DictPop(d, k) == [x \in DOMAIN d \ {k} |-> d[x]]
DictGet(d, k) == IF k \in DOMAIN d THEN d[k] ELSE None
EmptyDict == <<>>

\* a response without a body, and a session without a JSON document
NoBody == [header |-> <<>>, lines |-> <<>>]
NoJson == [columns |-> <<>>, index |-> <<>>, data |-> <<>>]

\* a response that carries no page data
Resp(status, page, location) ==
    [status |-> status, page |-> page, location |-> location, has_results |-> FALSE,
     scan_attempted |-> FALSE, scanned |-> FALSE, credential |-> None, error |-> None,
     body |-> NoBody]

(***************************************************************************)
(* The state of each part of the model while another part is explored.     *)
(***************************************************************************)
CsvIdle ==
    /\ script = "none" /\ cpc = "idle" /\ df = <<>> /\ unique_tables = <<>>
    /\ table_analysis = <<>> /\ consistent_tables = 0 /\ master_table_set = {}
    /\ missing_data = <<>> /\ complete_paths = <<>>

WebIdle ==
    /\ app = "none" /\ session = EmptyDict
    /\ request = [route |-> None, state |-> None, code |-> None]
    /\ response = Resp(0, None, None)
    /\ since_logout = FALSE
    /\ scan_json = NoJson /\ last_df = <<>> /\ used_state = None

NoContainer == blobs = EmptyDict

ScanIdle ==
    /\ scanner = "none" /\ spc = "idle" /\ datafeed_folders = <<>> /\ folder_idx = 0
    /\ listing_failed = FALSE
    /\ all_results = <<>> /\ analysed = <<>>

BrowseIdle ==
    /\ bpc = "none" /\ current_path = <<>> /\ ret_folders = <<>> /\ ret_files = <<>>
    /\ browse_error = FALSE

RenameIdle ==
    /\ rpc = "none" /\ search_term = <<>> /\ replace_term = <<>> /\ results = <<>>
    /\ ridx = 0 /\ rename_results = <<>> /\ copy_pending = FALSE
    /\ original = EmptyDict

NoFile == [exists |-> FALSE, header |-> <<>>, lines |-> <<>>]
NoAnalysis ==
    [total_tables |-> 0, consistent_count |-> 0, inconsistent_count |-> 0,
     consistent_tables |-> <<>>, inconsistent_tables |-> <<>>]

PipeIdle ==
    /\ ppc = "none" /\ report_df = <<>> /\ csv_file = NoFile /\ reader = "none"
    /\ run_status = "none" /\ analysis_results = NoAnalysis

NoFault == [at |-> "none", kind |-> "none"]
NoCall ==
    [op |-> "none", blob_name |-> <<>>, blob_name_given |-> FALSE, path |-> <<>>,
     path_given |-> FALSE, local |-> "none", fault |-> NoFault]

MgrIdle ==
    /\ mpc = "none" /\ mgr_env = [account_name |-> None, tenant_id |-> None,
                                   credential |-> None]
    /\ mgr_fault = NoFault /\ exit_status = -1 /\ propagated = "none"
    /\ last_call = NoCall /\ returned = "none" /\ contacted = FALSE
    /\ used_blob_name = <<>>

NoQuery == [search_term |-> <<>>, search_mode |-> "none", type_filter |-> "none"]

SearchIdle == qpc = "none" /\ query = NoQuery /\ search_results = <<>>

CfgIdle ==
    /\ cfg_pc = "none" /\ os_environ = EmptyDict /\ web_config = EmptyDict
    /\ cfg_errors = <<>> /\ cfg_raised = "none"

ReplIdle ==
    /\ lpc = "none" /\ browse_path = <<>> /\ choice = <<>> /\ last_step = "none"
    /\ entered_from = <<>> /\ ended_by = "none"

ExtIdle == PipeIdle /\ MgrIdle /\ SearchIdle /\ CfgIdle /\ ReplIdle

(***************************************************************************)
(* Generic sequence helpers.                                               *)
(***************************************************************************)
Range(s) == {s[i] : i \in DOMAIN s}

RECURSIVE SelectWhere(_, _)
\* the elements of s, in order, that belong to the set keep
SelectWhere(s, keep) ==
    IF s = <<>> THEN <<>>
    ELSE IF Head(s) \in keep THEN <<Head(s)>> \o SelectWhere(Tail(s), keep)
         ELSE SelectWhere(Tail(s), keep)

RECURSIVE SeqsUpTo(_, _)
\* all sequences over S of length at most n
SeqsUpTo(S, n) ==
    IF n = 0 THEN {<<>>}
    ELSE LET shorter == SeqsUpTo(S, n - 1)
         IN  shorter \cup {Append(s, x) : s \in {t \in shorter : Len(t) = n - 1}, x \in S}

(***************************************************************************)
(* Python strings whose characters matter: sequences of one-character      *)
(* strings, with the str methods the code calls.                           *)
(***************************************************************************)
\* the characters of the model in ascending code point order
Alphabet ==
    <<" ", ",", ".", "/", "0", "1", "2", "3", "4", "5", "6", "7", "8", "9", "A", "B", "C", "D", "E", "F", "G", "H", "I", "J", "K", "L">> \o
    <<"M", "N", "O", "P", "Q", "R", "S", "T", "U", "V", "W", "X", "Y", "Z", "_", "a", "b", "c", "d", "e">> \o
    <<"f", "g", "h", "i", "j", "k", "l", "m", "n", "o", "p", "q", "r", "s", "t", "u", "v", "w", "x", "y", "z">> \o
    <<"<U+00B2>">>
UpperCase == <<"A", "B", "C", "D", "E", "F", "G", "H", "I", "J", "K", "L", "M">> \o
             <<"N", "O", "P", "Q", "R", "S", "T", "U", "V", "W", "X", "Y", "Z">>
LowerCase == <<"a", "b", "c", "d", "e", "f", "g", "h", "i", "j", "k", "l", "m">> \o
             <<"n", "o", "p", "q", "r", "s", "t", "u", "v", "w", "x", "y", "z">>

\* ord(c), up to an order-preserving renumbering
OrdOf == [c \in Range(Alphabet) |-> CHOOSE i \in DOMAIN Alphabet : Alphabet[i] = c]
Ord(c) == OrdOf[c]

LowerOf ==
    [c \in Range(Alphabet) |->
        IF \E i \in DOMAIN UpperCase : UpperCase[i] = c
        THEN LowerCase[CHOOSE i \in DOMAIN UpperCase : UpperCase[i] = c]
        ELSE c]
LowerChar(c) == LowerOf[c]

\* str.lower()
Lower(str) == [i \in DOMAIN str |-> LowerChar(str[i])]

\* s[n:] with n counted from 0, as Python slices
SliceFrom(str, n) == IF n >= Len(str) THEN <<>> ELSE SubSeq(str, n + 1, Len(str))

\* str.startswith(prefix) and str.endswith(suffix)
StartsWith(str, prefix) ==
    Len(prefix) <= Len(str) /\ SubSeq(str, 1, Len(prefix)) = prefix
EndsWith(str, suffix) ==
    Len(suffix) <= Len(str) /\ SubSeq(str, Len(str) - Len(suffix) + 1, Len(str)) = suffix

\* `sub in str`
Contains(str, sub) ==
    \E i \in 0..(Len(str) - Len(sub)) : SubSeq(str, i + 1, i + Len(sub)) = sub

RECURSIVE Split(_, _)
\* str.split(sep) for a one-character separator: the segments, empty ones included
Split(str, sep) ==
    IF \A i \in DOMAIN str : str[i] # sep THEN <<str>>
    ELSE LET k == CHOOSE i \in DOMAIN str : str[i] = sep /\ \A j \in 1..(i - 1) : str[j] # sep
         IN  <<SubSeq(str, 1, k - 1)>> \o Split(SliceFrom(str, k), sep)

RECURSIVE Join(_, _)
\* sep.join(parts)
Join(parts, sep) ==
    IF parts = <<>> THEN <<>>
    ELSE IF Len(parts) = 1 THEN parts[1]
    ELSE parts[1] \o sep \o Join(Tail(parts), sep)

\* str.split('/')[-1]
LastSegment(str) == LET parts == Split(str, "/") IN parts[Len(parts)]

RECURSIVE RStrip(_, _)
\* str.rstrip(ch)
RStrip(str, ch) ==
    IF str # <<>> /\ str[Len(str)] = ch THEN RStrip(SubSeq(str, 1, Len(str) - 1), ch) ELSE str

RECURSIVE Replace(_, _, _)
\* str.replace(old, new) for a non-empty old: every non-overlapping occurrence,
\* found from the left
Replace(str, old, new) ==
    IF Len(str) < Len(old) THEN str
    ELSE IF SubSeq(str, 1, Len(old)) = old
    THEN new \o Replace(SliceFrom(str, Len(old)), old, new)
    ELSE <<str[1]>> \o Replace(Tail(str), old, new)

RECURSIVE StrLess(_, _)
\* a < b for strings: lexicographic by code point
StrLess(a, b) ==
    IF b = <<>> THEN FALSE
    ELSE IF a = <<>> THEN TRUE
    ELSE IF a[1] # b[1] THEN Ord(a[1]) < Ord(b[1])
    ELSE StrLess(Tail(a), Tail(b))

RECURSIVE Sorted(_)
\* sorted(set_of_strings): the list in ascending order
Sorted(S) ==
    IF S = {} THEN <<>>
    ELSE LET least == CHOOSE x \in S : \A y \in S \ {x} : StrLess(x, y)
         IN  <<least>> \o Sorted(S \ {least})


(***************************************************************************)
(* The CSV consistency scripts.                                            *)
(***************************************************************************)
MASTER_PATH_1 == "0000_test_parquet/100007-16_Showcase/Report Documentation/Datafeed"
MASTER_PATH_2 == "999999_WeitereKDdec/128019_18_Ruegenwalder_Welle4/Report Documentation/Datafeed"
\* a path that is no master path
OTHER_PATH == "555555_Analytics/DataWarehouse/Report Documentation/Datafeed"

\* the paths of the model in ascending string order ('0' < '5' < '9')
PathsAscending == <<MASTER_PATH_1, OTHER_PATH, MASTER_PATH_2>>

\* pandas' missing value: what read_csv makes of an empty or "NA" cell
NaN == "<NaN>"

CsvTables == {"DimBrand", "FactSales.parquet"}
CsvColumns == {"BrandID", "BrandName", NaN}

SourceTypeOf(table) == IF table = "FactSales.parquet" THEN "Parquet" ELSE "Excel"
SheetNameOf(table) == IF table = "FactSales.parquet" THEN NaN ELSE "Tables"

\* the rows a report CSV of the model can hold
CsvRows ==
    {[Path |-> p, Source_Type |-> SourceTypeOf(t), Sheet_Name |-> SheetNameOf(t),
      Table_Name |-> t, Column_Name |-> c] :
        p \in Range(PathsAscending), t \in CsvTables, c \in CsvColumns}

RECURSIVE Unique(_)
\* Series.unique(): the distinct values in order of first appearance
Unique(s) ==
    IF s = <<>> THEN <<>>
    ELSE LET init == Unique(SubSeq(s, 1, Len(s) - 1))
             x == s[Len(s)]
         IN  IF x \in Range(init) THEN init ELSE Append(init, x)

\* df[column] as a sequence of values
Column(frame, name) == [i \in DOMAIN frame |-> frame[i][name]]

\* df[df[name] == value]
WhereEq(frame, name, value) ==
    SelectWhere(frame, {r \in Range(frame) : r[name] = value})

\* set(series.dropna())
DropNaSet(series) == Range(series) \ {NaN}

\* the keys of df.groupby('Path'), in the order groupby yields them (sorted)
GroupByPathKeys(frame) ==
    SelectWhere(PathsAscending, Range(Column(frame, "Path")))

----------------------------------------------------------------------------
\* check_column_consistency.py

\* line 42: unique_tables = df['Table_Name'].unique()
ColumnUniqueTables ==
    /\ script = "column" /\ cpc = "start"
    /\ unique_tables' = Unique(Column(df, "Table_Name"))
    /\ cpc' = "analyze"
    /\ UNCHANGED <<script, df, table_analysis, consistent_tables,
                   master_table_set, missing_data, complete_paths>>
    /\ UNCHANGED <<webVars, blobs, scanVars, toolVars>>

\* lines 56-69: the master column set of one table
MasterCols(table_df, master_path) ==
    LET master_rows == WhereEq(table_df, "Path", master_path)
    IN  IF master_rows # <<>> THEN DropNaSet(Column(master_rows, "Column_Name")) ELSE {}

\* a master column set that forgets the second master path
MasterColumnSetFirstOnly(table_df) == MasterCols(table_df, MASTER_PATH_1)

MasterColumnSet(table_df) ==
    MasterCols(table_df, MASTER_PATH_1) \cup MasterCols(table_df, MASTER_PATH_2)

\* lines 74-87: the result for one path of one table
PathResult(group, master_column_set) ==
    LET path_cols == DropNaSet(Column(group, "Column_Name"))
        missing_cols == master_column_set \ path_cols
        extra_cols == path_cols \ master_column_set
    IN  [columns |-> path_cols, missing |-> missing_cols, extra |-> extra_cols,
         is_consistent |-> Cardinality(missing_cols) = 0 /\ Cardinality(extra_cols) = 0]

\* lines 53-95: the analysis of one table
AnalyzeTable(table_name) ==
    LET table_df == WhereEq(df, "Table_Name", table_name)
        master_column_set == MasterColumnSet(table_df)
        keys == GroupByPathKeys(table_df)
    IN  [master_1_cols |-> MasterCols(table_df, MASTER_PATH_1),
         master_2_cols |-> MasterCols(table_df, MASTER_PATH_2),
         master_column_set |-> master_column_set,
         path_results |->
             [path \in Range(keys) |->
                 PathResult(WhereEq(table_df, "Path", path), master_column_set)]]

\* lines 49-95: one iteration of the loop over unique_tables
ColumnAnalyzeTable ==
    /\ script = "column" /\ cpc = "analyze"
    /\ Cardinality(DOMAIN table_analysis) < Len(unique_tables)
    /\ LET table_name == unique_tables[Cardinality(DOMAIN table_analysis) + 1]
       IN  table_analysis' =
               [t \in DOMAIN table_analysis \cup {table_name} |->
                   IF t = table_name THEN AnalyzeTable(table_name) ELSE table_analysis[t]]
    /\ UNCHANGED <<script, cpc, df, unique_tables, consistent_tables,
                   master_table_set, missing_data, complete_paths>>
    /\ UNCHANGED <<webVars, blobs, scanVars, toolVars>>

\* lines 114-115: the tables all of whose paths are consistent
ConsistentTableCount(analysis) ==
    Cardinality({t \in DOMAIN analysis :
        \A path \in DOMAIN analysis[t].path_results :
            analysis[t].path_results[path].is_consistent})

\* lines 113-116: the summary after the loop
ColumnSummary ==
    /\ script = "column" /\ cpc = "analyze"
    /\ Cardinality(DOMAIN table_analysis) = Len(unique_tables)
    /\ consistent_tables' = ConsistentTableCount(table_analysis)
    /\ cpc' = "done"
    /\ UNCHANGED <<script, df, unique_tables, table_analysis,
                   master_table_set, missing_data, complete_paths>>
    /\ UNCHANGED <<webVars, blobs, scanVars, toolVars>>

----------------------------------------------------------------------------
\* check_table_consistency.py

\* lines 96-97: the table names of one master path
MasterPathTables(master_path) ==
    IF master_path \in Range(Column(df, "Path"))
    THEN Range(Unique(Column(WhereEq(df, "Path", master_path), "Table_Name")))
    ELSE {}

\* lines 96-105: master_table_set
TableMasterSet ==
    /\ script = "table" /\ cpc = "start"
    /\ master_table_set' = MasterPathTables(MASTER_PATH_1) \cup MasterPathTables(MASTER_PATH_2)
    /\ cpc' = "missing"
    /\ UNCHANGED <<script, df, unique_tables, table_analysis, consistent_tables,
                   missing_data, complete_paths>>
    /\ UNCHANGED <<webVars, blobs, scanVars, toolVars>>

\* line 163 / 666: the table names of one group
PathTables(path) == Range(Unique(Column(WhereEq(df, "Path", path), "Table_Name")))

RECURSIVE MissingData(_)
\* lines 161-193: the entries appended while iterating over the groups
MissingData(keys) ==
    IF keys = <<>> THEN <<>>
    ELSE LET path == Head(keys)
             path_tables == PathTables(path)
             missing_tables == master_table_set \ path_tables
             extra_tables == path_tables \ master_table_set
         IN  (IF missing_tables # {} \/ extra_tables # {}
              THEN <<[path |-> path, has_tables |-> Cardinality(path_tables),
                      missing_tables |-> missing_tables, extra_tables |-> extra_tables]>>
              ELSE <<>>) \o MissingData(Tail(keys))

\* lines 161-193
TableMissingData ==
    /\ script = "table" /\ cpc = "missing"
    /\ missing_data' = MissingData(GroupByPathKeys(df))
    /\ cpc' = "complete"
    /\ UNCHANGED <<script, df, unique_tables, table_analysis, consistent_tables,
                   master_table_set, complete_paths>>
    /\ UNCHANGED <<webVars, blobs, scanVars, toolVars>>

\* a completeness test that forgets the extra tables
IsCompletePathSubsetOnly(path_tables) == master_table_set \subseteq path_tables

\* line 668: a complete path has all master tables and no extra tables
IsCompletePath(path_tables) ==
    /\ master_table_set \subseteq path_tables
    /\ Cardinality(path_tables \ master_table_set) = 0

\* lines 664-669
TableCompletePaths ==
    /\ script = "table" /\ cpc = "complete"
    /\ complete_paths' =
           SelectWhere(GroupByPathKeys(df),
                       {p \in Range(PathsAscending) : IsCompletePath(PathTables(p))})
    /\ cpc' = "done"
    /\ UNCHANGED <<script, df, unique_tables, table_analysis, consistent_tables,
                   master_table_set, missing_data>>
    /\ UNCHANGED <<webVars, blobs, scanVars, toolVars>>

----------------------------------------------------------------------------
\* pd.read_csv (line 10 of both scripts): any report of at most MaxRows rows
CsvInit ==
    /\ WebIdle /\ NoContainer /\ ScanIdle /\ BrowseIdle /\ RenameIdle /\ ExtIdle
    /\ script \in {"column", "table"}
    /\ cpc = "start"
    /\ df \in SeqsUpTo(CsvRows, MaxRows)
    /\ unique_tables = <<>>
    /\ table_analysis = <<>>
    /\ consistent_tables = 0
    /\ master_table_set = {}
    /\ missing_data = <<>>
    /\ complete_paths = <<>>

CsvNext ==
    \/ ColumnUniqueTables
    \/ ColumnAnalyzeTable
    \/ ColumnSummary
    \/ TableMasterSet
    \/ TableMissingData
    \/ TableCompletePaths

SpecCsv == CsvInit /\ [][CsvNext]_vars

----------------------------------------------------------------------------
\* Claims about the CSV consistency scripts.

\* the indexes of the rows of df with the given path and table name
RowsOf(P, T) == {i \in DOMAIN df : df[i].Path = P /\ df[i].Table_Name = T}
\* cols(P,T): the non-null Column_Name values of these rows
ColsOf(P, T) == {df[i].Column_Name : i \in RowsOf(P, T)} \ {NaN}
\* M(T): the union of cols over the two master paths
MasterOf(T) == ColsOf(MASTER_PATH_1, T) \cup ColsOf(MASTER_PATH_2, T)
TableNamesOfDf == {df[i].Table_Name : i \in DOMAIN df}
PathsOfDf == {df[i].Path : i \in DOMAIN df}
PathsWithTable(T) == {P \in PathsOfDf : RowsOf(P, T) # {}}

\* C1: when check_column_consistency has finished, for every table name T
\* and every path P with at least one row for T, missing(P,T) = M(T) \ cols(P,T)
\* and extra(P,T) = cols(P,T) \ M(T); P is reported consistent for T iff both
\* are empty, exactly these paths are reported, and consistent_tables counts
\* the tables all of whose paths are consistent.
C1_ColumnSetDifferences ==
    (script = "column" /\ cpc = "done") =>
        /\ DOMAIN table_analysis = TableNamesOfDf
        /\ \A T \in TableNamesOfDf :
            /\ DOMAIN table_analysis[T].path_results = PathsWithTable(T)
            /\ \A P \in PathsWithTable(T) :
                LET pr == table_analysis[T].path_results[P]
                IN  /\ pr.missing = MasterOf(T) \ ColsOf(P, T)
                    /\ pr.extra = ColsOf(P, T) \ MasterOf(T)
                    /\ pr.is_consistent <=> (pr.missing = {} /\ pr.extra = {})
        /\ consistent_tables =
               Cardinality({T \in TableNamesOfDf :
                   \A P \in PathsWithTable(T) : ColsOf(P, T) = MasterOf(T)})

\* C1 witness: a finished run that reports a path with a missing column, a
\* path with an extra column and a fully consistent table.
C1_Witness ==
    /\ script = "column" /\ cpc = "done"
    /\ consistent_tables = 1
    /\ \E T \in DOMAIN table_analysis :
        /\ \E P \in DOMAIN table_analysis[T].path_results :
               table_analysis[T].path_results[P].missing # {}
        /\ \E P \in DOMAIN table_analysis[T].path_results :
               table_analysis[T].path_results[P].extra # {}

\* the table names of the rows of path P
TablesOfPath(P) == {df[i].Table_Name : i \in {j \in DOMAIN df : df[j].Path = P}}
\* the union of the table names of the two master paths
MasterTablesOfDf == TablesOfPath(MASTER_PATH_1) \cup TablesOfPath(MASTER_PATH_2)
IssuePaths == {missing_data[i].path : i \in DOMAIN missing_data}

\* C2: when check_table_consistency has finished, every path P of the CSV is
\* listed with issues iff master_table_set \ tables(P) or tables(P) \
\* master_table_set is non-empty, its entry holds exactly these two sets, it
\* is listed as complete iff both are empty, and no path is in both lists.
C2_TableSetDifferences ==
    (script = "table" /\ cpc = "done") =>
        /\ master_table_set = MasterTablesOfDf
        /\ \A i \in DOMAIN missing_data :
            /\ missing_data[i].path \in PathsOfDf
            /\ missing_data[i].missing_tables = MasterTablesOfDf \ TablesOfPath(missing_data[i].path)
            /\ missing_data[i].extra_tables = TablesOfPath(missing_data[i].path) \ MasterTablesOfDf
        /\ Range(complete_paths) \subseteq PathsOfDf
        /\ \A P \in PathsOfDf :
            /\ P \in IssuePaths <=>
                   (MasterTablesOfDf \ TablesOfPath(P) # {} \/ TablesOfPath(P) \ MasterTablesOfDf # {})
            /\ P \in Range(complete_paths) <=>
                   (MasterTablesOfDf \ TablesOfPath(P) = {} /\ TablesOfPath(P) \ MasterTablesOfDf = {})
            /\ (P \in IssuePaths) # (P \in Range(complete_paths))

\* C2 witness: a finished run with a complete path, a path that misses a
\* master table and a path with an extra table.
C2_Witness ==
    /\ script = "table" /\ cpc = "done"
    /\ complete_paths # <<>>
    /\ \E i \in DOMAIN missing_data : missing_data[i].extra_tables # {}
    /\ \E i \in DOMAIN missing_data : missing_data[i].missing_tables # {}

(***************************************************************************)
(* webapp.py and webapp_demo.py: the routes, acting on one session.        *)
(***************************************************************************)
\* the values secrets.token_urlsafe(16) can return (webapp.py line 55)
OAuthStates == {"state-A", "state-B"}
\* the access tokens and users Microsoft can answer with
AccessTokens == {"token-1", "token-2"}
Users == {"alice", "bob"}
\* webapp_demo.py lines 35-40, 174
DEMO_USER == "Demo User"
DEMO_TOKEN == "demo-token-12345"
\* the keys of the row dicts, in the order the scanner writes them
\* (datafeed_scanner.py 195-201, 249-255): the columns of the DataFrame
ReportColumns == <<"Path", "Source_Type", "Sheet_Name", "Table_Name", "Column_Name">>

\* the rows of generate_mock_scan_results (webapp_demo.py 47-142), one of each
\* shape: an Excel row and a Parquet row of the first folder, an Excel row of
\* the second; the folder paths are cut to their first and last component
M_path1 ==
    <<"0", "0", "0", "0", "_", "t", "e", "s", "t", "_", "p", "a", "r", "q", "u", "e", "t">> \o
    <<"/", "D", "a", "t", "a", "f", "e", "e", "d">>
M_path2 ==
    <<"9", "9", "9", "9", "9", "9", "_", "W", "e", "i", "t", "e", "r", "e", "K", "D", "d", "e", "c">> \o
    <<"/", "D", "a", "t", "a", "f", "e", "e", "d">>
M_Excel == <<"E", "x", "c", "e", "l">>
M_Parquet == <<"P", "a", "r", "q", "u", "e", "t">>
M_Tables == <<"T", "a", "b", "l", "e", "s">>
M_Dimensions == <<"D", "i", "m", "e", "n", "s", "i", "o", "n", "s">>
M_DimBrand == <<"D", "i", "m", "B", "r", "a", "n", "d">>
M_BrandID == <<"B", "r", "a", "n", "d", "I", "D">>
M_FactSales == <<"F", "a", "c", "t", "S", "a", "l", "e", "s", ".", "p", "a", "r", "q", "u", "e">> \o
    <<"t">>
M_SaleID == <<"S", "a", "l", "e", "I", "D">>
M_DimStore == <<"D", "i", "m", "S", "t", "o", "r", "e">>
M_StoreID == <<"S", "t", "o", "r", "e", "I", "D">>
MockScanResults ==
    << [Path |-> M_path1, Source_Type |-> M_Excel, Sheet_Name |-> M_Tables,
        Table_Name |-> M_DimBrand, Column_Name |-> M_BrandID],
       [Path |-> M_path1, Source_Type |-> M_Parquet, Sheet_Name |-> <<>>,
        Table_Name |-> M_FactSales, Column_Name |-> M_SaleID],
       [Path |-> M_path2, Source_Type |-> M_Excel, Sheet_Name |-> M_Dimensions,
        Table_Name |-> M_DimStore, Column_Name |-> M_StoreID] >>

\* the DataFrames a scan of webapp can return with rows (webapp.py 157)
ScanFrames == {f \in SeqsUpTo(Range(MockScanResults), 2) : f # <<>>}

\* the content of a JSON string literal as df.to_json writes it: backslash,
\* double quote and forward slash are escaped with a backslash
JsonEscape(text) ==
    Replace(Replace(Replace(text, <<"\\">>, <<"\\", "\\">>), <<"\"">>, <<"\\", "\"">>),
            <<"/">>, <<"\\", "/">>)

RECURSIVE JsonUnescape(_)
\* the text a JSON string literal stands for
JsonUnescape(text) ==
    IF text = <<>> THEN <<>>
    ELSE IF text[1] = "\\" /\ Len(text) >= 2
    THEN <<text[2]>> \o JsonUnescape(SliceFrom(text, 2))
    ELSE <<text[1]>> \o JsonUnescape(Tail(text))

\* df.to_json(orient='split') (webapp.py 161, webapp_demo.py 212): the column
\* list, the index and one list of values per row
ToJson(frame) ==
    [columns |-> ReportColumns,
     index |-> [i \in DOMAIN frame |-> i - 1],
     data |-> [i \in DOMAIN frame |->
                  [j \in DOMAIN ReportColumns |-> JsonEscape(frame[i][ReportColumns[j]])]]]

\* a text that pd.read_json converts to an integer when every value of its
\* column is one
IsNumericText(text) ==
    text # <<>> /\ \A i \in DOMAIN text : text[i] \in {"0", "1", "2", "3", "4", "5", "6", "7", "8", "9"}

RECURSIVE IntText(_)
\* str(int(text)): the digits without leading zeros
IntText(text) ==
    IF Len(text) > 1 /\ text[1] = "0" THEN IntText(Tail(text)) ELSE text

\* a read_json that keeps the literals as they are written
ReadJsonEscaped(doc) ==
    [i \in DOMAIN doc.data |->
        [c \in Range(doc.columns) |->
            doc.data[i][CHOOSE j \in DOMAIN doc.columns : doc.columns[j] = c]]]

\* pd.read_json(StringIO(text), orient='split') (webapp.py 215,
\* webapp_demo.py 260): the rows of the document, a column of numeric texts
\* converted to numbers
ReadJson(doc) ==
    LET cell(i, j) == JsonUnescape(doc.data[i][j])
        numeric(j) == doc.data # <<>> /\ \A i \in DOMAIN doc.data : IsNumericText(cell(i, j))
    IN  [i \in DOMAIN doc.data |->
            [c \in Range(doc.columns) |->
                LET j == CHOOSE k \in DOMAIN doc.columns : doc.columns[k] = c
                IN  IF numeric(j) THEN IntText(cell(i, j)) ELSE cell(i, j)]]

\* df.to_csv(index=False) (webapp.py 218, webapp_demo.py 263): the header and
\* one line of cell texts per row
CsvData(frame) ==
    [header |-> ReportColumns,
     lines |-> [i \in DOMAIN frame |->
                   [j \in DOMAIN ReportColumns |-> frame[i][ReportColumns[j]]]]]

\* the str object session['scan_results'] holds for a report with rows
\* (webapp.py 161); scan_json is its content
ReportJson == "{\"columns\":[...],\"data\":[...]}"
ReportStats == "{total_rows: ...}"

Req(route) == [route |-> route, state |-> None, code |-> None]

\* index (webapp.py 42-48, webapp_demo.py 161-167)
Index ==
    /\ app \in {"webapp", "demo"}
    /\ request' = Req("/")
    /\ response' = IF Truthy(DictGet(session, "user"))
                   THEN Resp(302, None, "dashboard")
                   ELSE Resp(200, "index.html", None)
    /\ UNCHANGED <<app, session, since_logout, scan_json, last_df, used_state>>
    /\ UNCHANGED <<csvVars, blobs, scanVars, toolVars>>

\* login (webapp.py 51-67)
WebLogin ==
    /\ app = "webapp"
    /\ \E state \in OAuthStates :
        /\ session' = DictSet(session, "oauth_state", state)
        /\ request' = Req("/login")
        /\ response' = Resp(302, None, "microsoft")
    /\ used_state' = None
    /\ UNCHANGED <<app, since_logout, scan_json, last_df>>
    /\ UNCHANGED <<csvVars, blobs, scanVars, toolVars>>

\* login (webapp_demo.py 170-176)
DemoLogin ==
    /\ app = "demo"
    /\ session' = DictSet(DictSet(DictSet(session, "user", DEMO_USER),
                                  "access_token", DEMO_TOKEN), "demo_mode", "True")
    /\ request' = Req("/login")
    /\ response' = Resp(302, None, "dashboard")
    /\ since_logout' = FALSE
    /\ UNCHANGED <<app, scan_json, last_df, used_state>>
    /\ UNCHANGED <<csvVars, blobs, scanVars, toolVars>>

\* MSALHelper.is_token_valid (auth_helper.py 170-179)
IsTokenValid(token_result) ==
    "access_token" \in DOMAIN token_result /\ "error" \notin DOMAIN token_result

\* the answers of acquire_token_by_auth_code (auth_helper.py 103-126): a token
\* response with access_token, id_token_claims and expires_in, or an error
TokenResults ==
    {[access_token |-> t, id_token_claims |-> u, expires_in |-> "3600"] :
        t \in AccessTokens, u \in Users}
    \cup {[error |-> "invalid_grant", error_description |-> "bad code"]}

\* the CSRF check of callback (webapp.py 74-75)
StateAccepted(state) == state = DictGet(session, "oauth_state")

\* a successful callback that leaves oauth_state in the session
AuthenticatedKeepingState(s, token_result) ==
    DictSet(DictSet(DictSet(s, "access_token", token_result.access_token),
                    "expires_in", token_result.expires_in),
            "user", token_result.id_token_claims)

\* lines 103-108 of webapp.py: the session a successful callback leaves
Authenticated(s, token_result) ==
    DictPop(DictSet(DictSet(DictSet(s, "access_token", token_result.access_token),
                            "expires_in", token_result.expires_in),
                    "user", token_result.id_token_claims),
            "oauth_state")

\* callback (webapp.py 70-110)
Callback ==
    /\ app = "webapp"
    /\ \E state \in OAuthStates \cup {None}, code \in {None, "", "auth-code"},
          token_result \in TokenResults :
        /\ request' = [route |-> "/callback", state |-> state, code |-> code]
        /\ IF ~StateAccepted(state)
           THEN /\ response' = [Resp(400, "error.html", None) EXCEPT !.error = "Authentication Error"]
                /\ UNCHANGED <<session, since_logout, used_state>>
           ELSE IF ~Truthy(code)
           THEN /\ response' = [Resp(400, "error.html", None) EXCEPT !.error = "Login Failed"]
                /\ UNCHANGED <<session, since_logout, used_state>>
           ELSE IF ~IsTokenValid(token_result)
           THEN /\ response' = [Resp(400, "error.html", None) EXCEPT !.error = "Authentication Failed"]
                /\ UNCHANGED <<session, since_logout, used_state>>
           ELSE /\ session' = Authenticated(session, token_result)
                /\ response' = Resp(302, None, "dashboard")
                /\ since_logout' = FALSE
                /\ used_state' = state
    /\ UNCHANGED <<app, scan_json, last_df>>
    /\ UNCHANGED <<csvVars, blobs, scanVars, toolVars>>

\* a logout that drops the identity but keeps the rest of the session
ClearedIdentityOnly(s) == DictPop(DictPop(s, "user"), "access_token")

\* what session.clear() leaves of the session
ClearedSession(s) == EmptyDict

\* logout (webapp.py 113-117, webapp_demo.py 179-183)
Logout ==
    /\ app \in {"webapp", "demo"}
    /\ session' = ClearedSession(session)
    /\ request' = Req("/logout")
    /\ response' = Resp(302, None, "index")
    /\ since_logout' = TRUE
    /\ scan_json' = NoJson
    /\ UNCHANGED <<app, last_df, used_state>>
    /\ UNCHANGED <<csvVars, blobs, scanVars, toolVars>>

\* the guard of dashboard and results (webapp.py 127, 185)
HasUser(s) == Truthy(DictGet(s, "user"))

\* dashboard (webapp.py 124-137, webapp_demo.py 186-197)
Dashboard ==
    /\ app \in {"webapp", "demo"}
    /\ request' = Req("/dashboard")
    /\ response' = IF ~HasUser(session)
                   THEN Resp(302, None, "index")
                   ELSE [Resp(200, "dashboard.html", None)
                            EXCEPT !.has_results = "scan_results" \in DOMAIN session]
    /\ UNCHANGED <<app, session, since_logout, scan_json, last_df, used_state>>
    /\ UNCHANGED <<csvVars, blobs, scanVars, toolVars>>

\* the keyword parameters DatafeedScanner.__init__ declares (datafeed_scanner.py 30)
DatafeedScannerInitParams == {}

\* calling DatafeedScanner(**kwargs): Python raises TypeError for a keyword
\* the signature does not declare
ConstructScanner(kwargs) ==
    IF kwargs \subseteq DatafeedScannerInitParams THEN "constructed" ELSE "TypeError"

\* a start_scan without its guard
WebMayScanAlways(s) == TRUE

\* the guard of start_scan (webapp.py 143)
WebMayScan(s) == Truthy(DictGet(s, "access_token"))

\* a store that treats every frame as an empty one
StoreResultsAsEmpty(s, frame) ==
    DictSet(DictSet(s, "scan_results", None), "scan_stats", None)

\* lines 159-165 of webapp.py, 210-216 of webapp_demo.py: the session after
\* the scan returned frame
StoreResults(s, frame) ==
    IF frame # <<>>
    THEN DictSet(DictSet(s, "scan_results", ReportJson), "scan_stats", ReportStats)
    ELSE DictSet(DictSet(s, "scan_results", None), "scan_stats", None)

\* the document and the history that go with StoreResults
StoredJson(frame) == IF frame # <<>> THEN ToJson(frame) ELSE NoJson

\* start_scan (webapp.py 140-179)
WebStartScan ==
    /\ app = "webapp"
    /\ request' = Req("/scan")
    /\ IF ~WebMayScan(session)
       THEN /\ response' = Resp(302, None, "index")
            /\ UNCHANGED <<session, scan_json, last_df>>
       ELSE LET credential == DictGet(session, "access_token")
                attempt == [Resp(500, "error.html", None) EXCEPT
                               !.scan_attempted = TRUE, !.credential = credential]
            IN  IF "access_token" \notin DOMAIN session
                THEN \* session['access_token'] raises KeyError inside the try
                     /\ response' = [attempt EXCEPT !.error = "KeyError"]
                     /\ UNCHANGED <<session, scan_json, last_df>>
                ELSE IF ConstructScanner({"credential"}) = "TypeError"
                THEN /\ response' = [attempt EXCEPT !.error = "TypeError"]
                     /\ UNCHANGED <<session, scan_json, last_df>>
                ELSE \E outcome \in {"rows", "raises"}, frame \in ScanFrames \cup {<<>>} :
                        IF outcome = "raises"
                        THEN /\ response' = [attempt EXCEPT !.scanned = TRUE,
                                                            !.error = "scan raised"]
                             /\ UNCHANGED <<session, scan_json, last_df>>
                        ELSE /\ session' = StoreResults(session, frame)
                             /\ scan_json' = StoredJson(frame)
                             /\ last_df' = IF frame # <<>> THEN frame ELSE last_df
                             /\ response' = [attempt EXCEPT !.status = 302, !.page = None,
                                                !.location = "results", !.scanned = TRUE]
    /\ UNCHANGED <<app, since_logout, used_state>>
    /\ UNCHANGED <<csvVars, blobs, scanVars, toolVars>>

\* start_scan (webapp_demo.py 200-223); generate_mock_scan_results (47-142)
\* always returns the same non-empty frame
DemoStartScan ==
    /\ app = "demo"
    /\ request' = Req("/scan")
    /\ IF ~HasUser(session)
       THEN /\ response' = Resp(302, None, "index")
            /\ UNCHANGED <<session, scan_json, last_df>>
       ELSE LET frame == MockScanResults
            IN  /\ session' = StoreResults(session, frame)
                /\ scan_json' = StoredJson(frame)
                /\ last_df' = IF frame # <<>> THEN frame ELSE last_df
                /\ response' = [Resp(302, None, "results") EXCEPT
                                   !.scan_attempted = TRUE, !.scanned = TRUE]
    /\ UNCHANGED <<app, since_logout, used_state>>
    /\ UNCHANGED <<csvVars, blobs, scanVars, toolVars>>

\* results (webapp.py 182-206, webapp_demo.py 226-250)
Results ==
    /\ app \in {"webapp", "demo"}
    /\ request' = Req("/results")
    /\ response' = IF ~HasUser(session) THEN Resp(302, None, "index")
                   ELSE IF ~Truthy(DictGet(session, "scan_results"))
                   THEN Resp(302, None, "dashboard")
                   ELSE Resp(200, "results.html", None)
    /\ UNCHANGED <<app, session, since_logout, scan_json, last_df, used_state>>
    /\ UNCHANGED <<csvVars, blobs, scanVars, toolVars>>

\* download_csv (webapp.py 209-226, webapp_demo.py 253-273)
DownloadCsv ==
    /\ app \in {"webapp", "demo"}
    /\ request' = Req("/download-csv")
    /\ response' = IF ~Truthy(DictGet(session, "scan_results"))
                   THEN Resp(404, "No results to download", None)
                   ELSE [Resp(200, "text/csv", None) EXCEPT
                            !.body = CsvData(ReadJson(scan_json))]
    /\ UNCHANGED <<app, session, since_logout, scan_json, last_df, used_state>>
    /\ UNCHANGED <<csvVars, blobs, scanVars, toolVars>>

\* a clear_results that empties the session
ClearedEverything(s) == EmptyDict

\* lines 232-233 of webapp.py, 279-280 of webapp_demo.py: the two pops
ClearedResults(s) == DictPop(DictPop(s, "scan_results"), "scan_stats")

\* clear_results (webapp.py 229-234, webapp_demo.py 276-281)
ClearResults ==
    /\ app \in {"webapp", "demo"}
    /\ request' = Req("/clear-results")
    /\ session' = ClearedResults(session)
    /\ response' = Resp(302, None, "dashboard")
    /\ scan_json' = NoJson
    /\ UNCHANGED <<app, since_logout, last_df, used_state>>
    /\ UNCHANGED <<csvVars, blobs, scanVars, toolVars>>

\* a new browser session on either application
WebInit ==
    /\ CsvIdle /\ NoContainer /\ ScanIdle /\ BrowseIdle /\ RenameIdle /\ ExtIdle
    /\ app \in {"webapp", "demo"}
    /\ session = EmptyDict
    /\ request = Req(None)
    /\ response = Resp(0, None, None)
    /\ since_logout = FALSE
    /\ scan_json = NoJson /\ last_df = <<>> /\ used_state = None

WebNext ==
    \/ Index
    \/ WebLogin
    \/ DemoLogin
    \/ Callback
    \/ Logout
    \/ Dashboard
    \/ WebStartScan
    \/ DemoStartScan
    \/ Results
    \/ DownloadCsv
    \/ ClearResults

SpecWeb == WebInit /\ [][WebNext]_vars

----------------------------------------------------------------------------
\* Claims about the web applications.

SessionHolds(key) == key \in DOMAIN session /\ session[key] \notin {None, ""}

\* C3: /callback authenticates a session only when the request carries a
\* state parameter equal to the oauth_state that a preceding /login stored in
\* that session; every other callback is answered with 400 and leaves user
\* and access_token as they were.
C3_CallbackNeedsStoredState ==
    [][request'.route = "/callback" =>
        \/ /\ request'.state # None
           /\ "oauth_state" \in DOMAIN session
           /\ request'.state = session["oauth_state"]
        \/ /\ response'.status = 400
           /\ DictGet(session', "user") = DictGet(session, "user")
           /\ DictGet(session', "access_token") = DictGet(session, "access_token")]_vars

\* C4: /dashboard and /results render their page only when the session holds
\* a user and redirect to the index without one, and /scan neither attempts
\* nor performs a scan for a session without a user.
C4_PagesAndScanNeedUser ==
    /\ response.page \in {"dashboard.html", "results.html"} => SessionHolds("user")
    /\ (request.route \in {"/dashboard", "/results"} /\ ~SessionHolds("user")) =>
           (response.status = 302 /\ response.location = "index")
    /\ (request.route = "/scan" /\ ~SessionHolds("user")) =>
           (~response.scan_attempted /\ ~response.scanned)

\* C4 witness: /scan asked of a session that was logged out is redirected.
C4_Witness ==
    /\ since_logout /\ request.route = "/scan" /\ ~SessionHolds("user")
    /\ response.status = 302 /\ response.location = "index"

\* C5: right after /logout the session holds no user, access_token,
\* oauth_state or scan results; from then to the next successful login
\* /dashboard, /results and /scan redirect to the index, no scan is attempted
\* and /download-csv returns 404.
C5_LogoutEndsSession ==
    /\ request.route = "/logout" =>
           DOMAIN session \cap {"user", "access_token", "oauth_state",
                                "scan_results", "scan_stats"} = {}
    /\ since_logout =>
        /\ ~SessionHolds("user") /\ ~SessionHolds("access_token")
        /\ request.route \in {"/dashboard", "/results", "/scan"} =>
               (response.status = 302 /\ response.location = "index"
                /\ ~response.scan_attempted)
        /\ request.route = "/download-csv" => response.status = 404

\* C5 witness: a download asked for after a logout, once a new login has
\* been started but not completed, is answered with 404.
C5_Witness ==
    /\ since_logout /\ request.route = "/download-csv" /\ response.status = 404

\* C6: in webapp, POST /scan from a session that holds an access token builds
\* the scanner with a credential made of that token, runs generate_report and
\* stores the result before redirecting to /results; it answers 500 only when
\* the scan itself raises.
C6_ScanUsesSessionToken ==
    (app = "webapp" /\ request.route = "/scan" /\ SessionHolds("access_token")) =>
        /\ response.credential = session["access_token"]
        /\ response.scanned
        /\ response.status = 500 => response.error = "scan raised"
        /\ response.status # 500 =>
               (response.location = "results" /\ "scan_results" \in DOMAIN session)

\* the rows of a DataFrame as lines of cell texts, in the order of the frame
StoredLines(frame) ==
    [i \in DOMAIN frame |-> [j \in DOMAIN ReportColumns |-> frame[i][ReportColumns[j]]]]

\* C15: GET /download-csv answers 404 'No results to download' when the
\* session holds no non-empty scan_results, and otherwise a CSV whose rows are
\* exactly the rows stored by the most recent successful scan of the session,
\* in the same order, after the round trip through the session's JSON.
C15_DownloadCsvRoundTrip ==
    request.route = "/download-csv" =>
        IF ~SessionHolds("scan_results")
        THEN /\ response.status = 404 /\ response.page = "No results to download"
             /\ response.body = NoBody
        ELSE /\ response.status = 200 /\ response.page = "text/csv"
             /\ response.body.header = ReportColumns
             /\ response.body.lines = StoredLines(last_df)

\* C15 witness: a download after a scan returns the three stored rows, among
\* them a path with slashes and a Parquet row with an empty Sheet_Name.
C15_Witness ==
    /\ request.route = "/download-csv" /\ response.status = 200
    /\ Len(response.body.lines) = 3
    /\ response.body.lines[1][1] = M_path1
    /\ response.body.lines[2][3] = <<>>

C18_WitnessCleared ==
    /\ request.route = "/dashboard" /\ response.page = "dashboard.html"
    /\ ~response.has_results /\ last_df # <<>>

\* C20: the OAuth state is single-use: a callback that succeeds removes
\* oauth_state from the session, and from then until /login is requested
\* again a callback that carries the same state value is answered with 400.
C20_StateSingleUse ==
    [][request'.route = "/callback" =>
        /\ (response'.status = 302 => "oauth_state" \notin DOMAIN session')
        /\ (used_state # None /\ request'.state = used_state) =>
               (response'.status = 400 /\ session' = session)]_vars

\* C20 witness: a callback with an authorization code and the state that an
\* earlier callback of the session used up is answered with 400.
C20_Witness ==
    /\ request.route = "/callback" /\ request.code = "auth-code"
    /\ used_state # None /\ request.state = used_state
    /\ SessionHolds("user") /\ response.status = 400

\* what a /clear-results request does to the session: the two result keys
\* are gone, every other key is as it was, and a second request in a row
\* changes nothing
ClearResultsEffect ==
    request'.route = "/clear-results" =>
        /\ DOMAIN session' \cap {"scan_results", "scan_stats"} = {}
        /\ \A k \in {"user", "access_token", "expires_in"} :
               /\ (k \in DOMAIN session') <=> (k \in DOMAIN session)
               /\ DictGet(session', k) = DictGet(session, k)
        /\ request.route = "/clear-results" => session' = session

\* the request that follows /clear-results
AfterClearResults(route) == request.route = "/clear-results" /\ request'.route = route

\* C21 as stated: POST /clear-results removes scan_results and scan_stats and
\* leaves user, access_token and expires_in unchanged, twice is the same as
\* once, and afterwards /results redirects to the dashboard and /download-csv
\* returns 404.
C21_ClearResultsFrame ==
    [][/\ ClearResultsEffect
       /\ AfterClearResults("/results") =>
              (response'.status = 302 /\ response'.location = "dashboard")
       /\ AfterClearResults("/download-csv") => response'.status = 404]_vars

\* C21 amended: as stated, except that /results redirects to the dashboard
\* only for a session that holds a user; for a session without one it
\* redirects to the index.
C21_ClearResultsFrameForUser ==
    [][/\ ClearResultsEffect
       /\ AfterClearResults("/results") =>
              /\ response'.status = 302
              /\ response'.location = IF HasUser(session) THEN "dashboard" ELSE "index"
       /\ AfterClearResults("/download-csv") => response'.status = 404]_vars

\* C21 witness: /clear-results has removed the rows a scan had stored from a
\* session that still holds its user and access token.
C21_Witness ==
    /\ request.route = "/clear-results" /\ last_df # <<>>
    /\ DOMAIN session \cap {"scan_results", "scan_stats"} = {}
    /\ SessionHolds("user") /\ SessionHolds("access_token")

(***************************************************************************)
(* The container and the Datafeed scanners (datafeed_scanner.py,           *)
(* param_manager_scanner.py).                                              *)
(***************************************************************************)
Slash == <<"/">>
S_p == <<"p">>
S_q == <<"q">>
S_Datafeed == <<"D", "a", "t", "a", "f", "e", "e", "d">>
S_datafeed == <<"d", "a", "t", "a", "f", "e", "e", "d">>
S_DATAFEED == <<"D", "A", "T", "A", "F", "E", "E", "D">>
S_Datafeeds == <<"D", "a", "t", "a", "f", "e", "e", "d", "s">>
F_DimManager == <<"D", "i", "m", "M", "a", "n", "a", "g", "e", "r", ".", "x", "l", "s", "x">>
F_dimmanager_old == <<"d", "i", "m", "m", "a", "n", "a", "g", "e", "r", "_", "o", "l", "d", ".", "x", "l", "s">>
F_ParameterManager == <<"P", "a", "r", "a", "m", "e", "t", "e", "r", "M", "a", "n", "a", "g", "e", "r", ".", "x", "l", "s", "x">>
F_f_parquet == <<"f", ".", "p", "a", "r", "q", "u", "e", "t">>
F_g_parquet == <<"G", ".", "P", "A", "R", "Q", "U", "E", "T">>

\* all subsets of S with at most n elements
SubsetsUpTo(S, n) == {X \in SUBSET S : Cardinality(X) <= n}

\* the blob names of the scanner model
ScanNames ==
    { S_p \o Slash \o S_Datafeed \o Slash \o F_DimManager,
      S_p \o Slash \o S_Datafeed \o Slash \o F_dimmanager_old,
      S_p \o Slash \o S_Datafeed \o Slash \o F_f_parquet,
      S_p \o Slash \o S_Datafeed \o Slash \o S_DATAFEED \o Slash \o F_g_parquet,
      S_q \o Slash \o S_datafeed \o Slash \o F_ParameterManager,
      S_q \o Slash \o S_datafeed \o Slash,
      S_q \o Slash \o S_Datafeeds \o Slash \o F_f_parquet,
      S_Datafeed }

\* workbooks: sheets in order, each with its named tables in order, each with
\* the header cells of its first row (None: an empty cell)
Workbook1 ==
    <<[name |-> "Tables",
       tables |-> <<[name |-> <<"D", "i", "m", "B">>,
                     header |-> <<"BrandID", None, "BrandName", "">>]>>],
      [name |-> "Notes", tables |-> <<>>]>>
Workbook2 ==
    <<[name |-> "Dimensions",
       tables |-> <<[name |-> <<"D", "i", "m", "S">>, header |-> <<"StoreID">>],
                    [name |-> <<"D", "i", "m", "E">>, header |-> <<None>>]>>]>>
ParquetColumns == <<"SaleID", "DateKey">>

\* a blob: its size and what a reader finds in it; readable is FALSE for a
\* file load_workbook / read_parquet raises on
Blob(size, readable, sheets, columns) ==
    [size |-> size, readable |-> readable, sheets |-> sheets, columns |-> columns]
FolderMarker == Blob(0, FALSE, <<>>, <<>>)

\* what a blob of the scanner model can hold
ScanBlobsFor(name) ==
    IF EndsWith(name, Slash) THEN {FolderMarker}
    ELSE IF EndsWith(Lower(name), <<".", "p", "a", "r", "q", "u", "e", "t">>)
    THEN {Blob(1, TRUE, <<>>, ParquetColumns), Blob(1, FALSE, <<>>, <<>>),
          Blob(0, FALSE, <<>>, <<>>)}
    ELSE IF Contains(name, <<".">>)
    THEN {Blob(1, TRUE, Workbook1, <<>>), Blob(1, TRUE, Workbook2, <<>>),
          Blob(1, FALSE, <<>>, <<>>)}
    ELSE {Blob(1, FALSE, <<>>, <<>>)}

\* the containers of the scanner model
ScanContainers ==
    UNION {{c \in [X -> UNION {ScanBlobsFor(n) : n \in X}] :
               \A n \in X : c[n] \in ScanBlobsFor(n)} :
           X \in SubsetsUpTo(ScanNames, MaxBlobs)}

\* container_client.list_blobs(name_starts_with=prefix): the names, which Azure
\* lists in lexicographic order
ListBlobs(prefix) == Sorted({n \in DOMAIN blobs : StartsWith(n, prefix)})

\* EXCEL_SEARCH_TERM (datafeed_scanner.py 28, param_manager_scanner.py 28)
ExcelSearchTerm ==
    IF scanner = "param"
    THEN <<"p", "a", "r", "a", "m", "e", "t", "e", "r", "m", "a", "n", "a", "g", "e", "r">>
    ELSE <<"d", "i", "m", "m", "a", "n", "a", "g", "e", "r">>

\* a scan that cuts the name after the last 'datafeed' segment
DatafeedPathOfLastHit(name) ==
    LET path_parts == Split(name, "/")
        hits == {i \in DOMAIN path_parts : Lower(path_parts[i]) = S_datafeed}
    IN  IF hits = {} THEN {}
        ELSE LET i == CHOOSE h \in hits : \A g \in hits : h >= g
             IN  {Join(SubSeq(path_parts, 1, i), Slash) \o Slash}

\* lines 52-60: the Datafeed folder of one blob name, as a set of none or one
DatafeedPathOf(name) ==
    LET path_parts == Split(name, "/")
        hits == {i \in DOMAIN path_parts : Lower(path_parts[i]) = S_datafeed}
    IN  IF hits = {} THEN {}
        ELSE LET i == CHOOSE h \in hits : \A g \in hits : h <= g
             IN  {Join(SubSeq(path_parts, 1, i), Slash) \o Slash}

\* scan_for_datafeed_folders (lines 35-75 of both scanners), listing error aside
ScanForDatafeedFolders ==
    Sorted(UNION {DatafeedPathOf(n) : n \in Range(ListBlobs(<<>>))})

\* generate_report, lines 274-278 (datafeed) / 221-225 (param): the scan, which
\* returns [] on an AzureError of the listing, and the early return
ReportScan ==
    /\ scanner \in {"datafeed", "param"} /\ spc = "start"
    /\ \E listing \in {"ok", "AzureError"} :
        /\ datafeed_folders' = IF listing = "ok" THEN ScanForDatafeedFolders ELSE <<>>
        /\ listing_failed' = (listing = "AzureError")
    /\ spc' = IF datafeed_folders' = <<>> THEN "done" ELSE "folders"
    /\ UNCHANGED <<scanner, folder_idx, all_results, analysed>>
    /\ UNCHANGED <<csvVars, webVars, blobs, toolVars>>

\* the file name tests of get_files_in_datafeed (line 104 / 99, line 108)
IsExcelName(filename) ==
    /\ Contains(Lower(filename), ExcelSearchTerm)
    /\ \E ext \in {<<".", "x", "l", "s", "x">>, <<".", "x", "l", "s", "m">>,
                   <<".", "x", "l", "s">>} : EndsWith(Lower(filename), ext)
IsParquetName(filename) ==
    EndsWith(Lower(filename), <<".", "p", "a", "r", "q", "u", "e", "t">>)

\* lines 95-98: the blobs of the listing that are no folder markers
DatafeedFileBlobs(datafeed_path) ==
    SelectWhere(ListBlobs(datafeed_path),
                {n \in DOMAIN blobs : ~(blobs[n].size = 0 \/ EndsWith(n, Slash))})

\* get_files_in_datafeed (datafeed_scanner.py 77-115): the last Excel match
\* and the Parquet files that are no Excel match;
\* (param_manager_scanner.py 77-106): the first Excel match
GetFilesInDatafeed(datafeed_path) ==
    LET files == DatafeedFileBlobs(datafeed_path)
        excels == SelectWhere(files, {n \in Range(files) : IsExcelName(LastSegment(n))})
        parquets == SelectWhere(files, {n \in Range(files) :
                        ~IsExcelName(LastSegment(n)) /\ IsParquetName(LastSegment(n))})
    IN  [excel |-> IF excels = <<>> THEN None
                   ELSE IF scanner = "param" THEN excels[1] ELSE excels[Len(excels)],
         parquet |-> IF scanner = "param" THEN <<>> ELSE parquets]

\* a Path column that keeps the trailing '/'
RowPathUnstripped(datafeed_path) == datafeed_path

\* the Path column of a row (line 196, 250)
RowPath(datafeed_path) == RStrip(datafeed_path, "/")

\* lines 186-201: the rows of one named table
TableRows(datafeed_path, sheet_name, table) ==
    LET column_headers == SelectWhere(table.header, {c \in Range(table.header) : Truthy(c)})
    IN  [i \in DOMAIN column_headers |->
            [Path |-> RowPath(datafeed_path), Source_Type |-> "Excel",
             Sheet_Name |-> sheet_name, Table_Name |-> table.name,
             Column_Name |-> column_headers[i]]]

RECURSIVE TablesRows(_, _, _)
\* lines 177-204: the rows of the named tables of one sheet
TablesRows(datafeed_path, sheet_name, tables) ==
    IF tables = <<>> THEN <<>>
    ELSE TableRows(datafeed_path, sheet_name, Head(tables))
         \o TablesRows(datafeed_path, sheet_name, Tail(tables))

RECURSIVE SheetsRows(_, _)
\* lines 171-208: the rows of all sheets
SheetsRows(datafeed_path, sheets) ==
    IF sheets = <<>> THEN <<>>
    ELSE TablesRows(datafeed_path, Head(sheets).name, Head(sheets).tables)
         \o SheetsRows(datafeed_path, Tail(sheets))

\* analyze_excel_file_with_tables (lines 149-220 / 140-211)
AnalyzeExcel(blob, datafeed_path) ==
    IF ~blob.readable THEN <<>> ELSE SheetsRows(datafeed_path, blob.sheets)

\* analyze_parquet_file (datafeed_scanner.py 222-265), after the download
AnalyzeParquet(parquet_blob_name, blob, datafeed_path) ==
    IF ~blob.readable THEN <<>>
    ELSE [i \in DOMAIN blob.columns |->
            [Path |-> RowPath(datafeed_path), Source_Type |-> "Parquet",
             Sheet_Name |-> "", Table_Name |-> LastSegment(parquet_blob_name),
             Column_Name |-> blob.columns[i]]]

RECURSIVE ParquetRows(_, _, _)
\* lines 323-330: the rows of the Parquet files whose download succeeded
ParquetRows(parquet, downloaded, datafeed_path) ==
    IF parquet = <<>> THEN <<>>
    ELSE (IF Head(parquet) \in downloaded
          THEN AnalyzeParquet(Head(parquet), blobs[Head(parquet)], datafeed_path)
          ELSE <<>>) \o ParquetRows(Tail(parquet), downloaded, datafeed_path)

\* the files of a list that were downloaded and read to the end
Readable(names, downloaded) ==
    SelectWhere(names, {n \in Range(names) : n \in downloaded /\ blobs[n].readable})

\* one iteration of the loop of generate_report (lines 286-332 / 233-264);
\* download_blob_to_temp (117-147) returns None for the blobs not in downloaded
ReportFolder ==
    /\ scanner \in {"datafeed", "param"} /\ spc = "folders"
    /\ folder_idx < Len(datafeed_folders)
    /\ LET datafeed_path == datafeed_folders[folder_idx + 1] IN
       \E listing \in {"ok", "AzureError"} :
         LET files == IF listing = "ok" THEN GetFilesInDatafeed(datafeed_path)
                      ELSE [excel |-> None, parquet |-> <<>>]
             wanted == (IF files.excel # None THEN {files.excel} ELSE {})
                       \cup Range(files.parquet)
         IN  \E downloaded \in SUBSET wanted :
               LET excel_results ==
                       IF files.excel # None /\ files.excel \in downloaded
                       THEN AnalyzeExcel(blobs[files.excel], datafeed_path)
                       ELSE <<>>
                   excel_list == IF files.excel # None THEN <<files.excel>> ELSE <<>>
               IN  /\ all_results' = all_results \o excel_results
                                     \o ParquetRows(files.parquet, downloaded, datafeed_path)
                   /\ analysed' = analysed
                          \o [i \in DOMAIN Readable(excel_list, downloaded) |->
                                 [folder |-> datafeed_path, kind |-> "Excel",
                                  blob |-> Readable(excel_list, downloaded)[i]]]
                          \o [i \in DOMAIN Readable(files.parquet, downloaded) |->
                                 [folder |-> datafeed_path, kind |-> "Parquet",
                                  blob |-> Readable(files.parquet, downloaded)[i]]]
    /\ folder_idx' = folder_idx + 1
    /\ UNCHANGED <<scanner, spc, datafeed_folders, listing_failed>>
    /\ UNCHANGED <<csvVars, webVars, blobs, toolVars>>

\* lines 334-344 / 266-276: the loop has ended, the DataFrame is returned
ReportDone ==
    /\ scanner \in {"datafeed", "param"} /\ spc = "folders"
    /\ folder_idx = Len(datafeed_folders)
    /\ spc' = "done"
    /\ UNCHANGED <<scanner, datafeed_folders, listing_failed, folder_idx, all_results,
                   analysed>>
    /\ UNCHANGED <<csvVars, webVars, blobs, toolVars>>

ScanInit ==
    /\ CsvIdle /\ WebIdle /\ BrowseIdle /\ RenameIdle /\ ExtIdle
    /\ blobs \in ScanContainers
    /\ scanner \in {"datafeed", "param"}
    /\ spc = "start"
    /\ datafeed_folders = <<>> /\ listing_failed = FALSE /\ folder_idx = 0
    /\ all_results = <<>> /\ analysed = <<>>

ScanNext ==
    \/ ReportScan
    \/ ReportFolder
    \/ ReportDone

SpecScan == ScanInit /\ [][ScanNext]_vars

----------------------------------------------------------------------------
\* Claims about the scanners.

\* the ends e of the segments of name that equal 'datafeed' ignoring case:
\* the segment runs from b to e, between two '/' or the ends of the name
DatafeedSegmentEnds(name) ==
    {e \in DOMAIN name :
        /\ e = Len(name) \/ name[e + 1] = "/"
        /\ e >= Len(S_datafeed)
        /\ LET b == e - Len(S_datafeed) + 1
           IN  /\ b = 1 \/ name[b - 1] = "/"
               /\ \A k \in b..e : LowerChar(name[k]) = S_datafeed[k - b + 1]}

\* the name cut after its first such segment, with '/' appended
ExpectedDatafeedFolders ==
    {SubSeq(n, 1, CHOOSE e \in DatafeedSegmentEnds(n) :
                      \A g \in DatafeedSegmentEnds(n) : e <= g) \o Slash :
        n \in {m \in DOMAIN blobs : DatafeedSegmentEnds(m) # {}}}

\* C9: scan_for_datafeed_folders returns, sorted ascending and without
\* duplicates, exactly the strings obtained from each blob name that has a
\* segment equal to 'datafeed' ignoring case by cutting the name after the
\* first such segment and appending '/'; a listing error yields the empty list.
C9_DatafeedFoldersExact ==
    spc \in {"folders", "done"} =>
        IF listing_failed THEN datafeed_folders = <<>>
        ELSE /\ Range(datafeed_folders) = ExpectedDatafeedFolders
             /\ \A i, j \in DOMAIN datafeed_folders :
                    i < j => StrLess(datafeed_folders[i], datafeed_folders[j])

\* C9 witness: a scan that found two folders, one of them through a blob with
\* two 'datafeed' segments, and skipped a blob without such a segment.
C9_Witness ==
    /\ spc = "folders" /\ ~listing_failed /\ Len(datafeed_folders) = 2
    /\ \E n \in DOMAIN blobs : Cardinality(DatafeedSegmentEnds(n)) = 2
    /\ \E n \in DOMAIN blobs : DatafeedSegmentEnds(n) = {}

\* the (sheet, table, cell) positions of the non-empty header cells of a workbook
HeaderCells(sheets) ==
    {<<s, t, c>> \in (DOMAIN sheets) \X (1..2) \X (1..4) :
        /\ t \in DOMAIN sheets[s].tables
        /\ c \in DOMAIN sheets[s].tables[t].header
        /\ sheets[s].tables[t].header[c] \notin {None, ""}}

\* t is the file name (last path component) of blob name n
IsFileNameOf(t, n) == ~Contains(t, Slash) /\ (n = t \/ EndsWith(n, Slash \o t))

RowsWith(path, source_type) ==
    {i \in DOMAIN all_results :
        all_results[i].Path = path /\ all_results[i].Source_Type = source_type}

\* C10: every accumulated row has exactly the five fields, its Path is a
\* Datafeed folder path without the trailing '/', its Source_Type is Excel or
\* Parquet, a Parquet row has an empty Sheet_Name and the file name as
\* Table_Name, every analysed workbook gives one row per (table, non-empty
\* header cell), and ParamManagerScanner produces only Excel rows.
C10_ReportRows ==
    /\ \A i \in DOMAIN all_results :
        LET row == all_results[i] IN
        /\ DOMAIN row = {"Path", "Source_Type", "Sheet_Name", "Table_Name", "Column_Name"}
        /\ row.Path \o Slash \in Range(datafeed_folders)
        /\ ~EndsWith(row.Path, Slash)
        /\ row.Source_Type \in {"Excel", "Parquet"}
        /\ row.Source_Type = "Parquet" =>
            /\ row.Sheet_Name = ""
            /\ scanner = "datafeed"
            /\ \E a \in Range(analysed) :
                /\ a.kind = "Parquet" /\ a.folder = row.Path \o Slash
                /\ IsFileNameOf(row.Table_Name, a.blob)
    /\ \A a \in Range(analysed) :
        a.kind = "Excel" =>
            LET sheets == blobs[a.blob].sheets
                path == SubSeq(a.folder, 1, Len(a.folder) - 1)
            IN  /\ Cardinality(RowsWith(path, "Excel")) = Cardinality(HeaderCells(sheets))
                /\ \A cell \in HeaderCells(sheets) :
                    \E i \in RowsWith(path, "Excel") :
                        /\ all_results[i].Sheet_Name = sheets[cell[1]].name
                        /\ all_results[i].Table_Name = sheets[cell[1]].tables[cell[2]].name
                        /\ all_results[i].Column_Name =
                               sheets[cell[1]].tables[cell[2]].header[cell[3]]

\* C10 witness: a finished DatafeedScanner report that holds Excel rows of a
\* workbook with an empty header cell and Parquet rows.
C10_Witness ==
    /\ scanner = "datafeed" /\ spc = "done"
    /\ \E i \in DOMAIN all_results : all_results[i].Source_Type = "Parquet"
    /\ \E a \in Range(analysed) :
        /\ a.kind = "Excel"
        /\ \E s \in DOMAIN blobs[a.blob].sheets :
            \E t \in DOMAIN blobs[a.blob].sheets[s].tables :
                None \in Range(blobs[a.blob].sheets[s].tables[t].header)

(***************************************************************************)
(* azure_file_manager.py: AzureFileManager.get_folders_and_files.          *)
(* A blob of this part and of the rename tool is [size, content]; the      *)
(* last_modified stamp that the file entries carry is left out.            *)
(***************************************************************************)
FileBlob(size, content) == [size |-> size, content |-> content]

S_foo == <<"f", "o", "o">>
S_foobar == <<"f", "o", "o", "b", "a", "r">>
S_sub == <<"s", "u", "b">>
F_a_txt == <<"a", ".", "t", "x", "t">>
F_b_txt == <<"b", ".", "t", "x", "t">>
F_x_txt == <<"x", ".", "t", "x", "t">>
F_top_txt == <<"t", "o", "p", ".", "t", "x", "t">>

\* the blob names of the browser model
BrowseNames ==
    { S_foo \o Slash \o F_a_txt,
      S_foo \o Slash \o S_sub \o Slash \o F_b_txt,
      S_foo \o Slash,
      S_foobar \o Slash \o F_x_txt,
      F_top_txt }

\* a folder marker is empty; another blob is empty or not
BrowseBlobsFor(name) ==
    IF EndsWith(name, Slash) THEN {FileBlob(0, name)}
    ELSE {FileBlob(0, name), FileBlob(3, name)}

BrowseContainers ==
    UNION {{c \in [X -> UNION {BrowseBlobsFor(n) : n \in X}] :
               \A n \in X : c[n] \in BrowseBlobsFor(n)} :
           X \in SubsetsUpTo(BrowseNames, MaxBlobs)}

\* the paths a caller passes: the root, a folder with and without its '/'
BrowsePaths == {<<>>, S_foo, S_foo \o Slash, S_foo \o Slash \o S_sub \o Slash}

\* lines 122-126: current_path after `current_path += '/'`
WithSlash(path) ==
    IF path # <<>> /\ ~EndsWith(path, Slash) THEN path \o Slash ELSE path

\* lines 119-153: the tuple get_folders_and_files returns when the listing
\* succeeds. The listing (119) is taken with the path as given; the
\* relative paths (130) are cut with the length of the path after line 126.
GetFoldersAndFiles(path) ==
    LET listed == ListBlobs(path)
        relative_path(name) == SliceFrom(name, Len(WithSlash(path)))
        in_subfolder == {n \in Range(listed) :
                            relative_path(n) # <<>> /\ Contains(relative_path(n), Slash)}
        folder_names == {Split(relative_path(n), "/")[1] : n \in in_subfolder} \ {<<>>}
        at_level == {n \in Range(listed) :
                        /\ relative_path(n) # <<>>
                        /\ ~Contains(relative_path(n), Slash)
                        /\ blobs[n].size > 0
                        /\ ~EndsWith(relative_path(n), Slash)}
        kept == SelectWhere(listed, at_level)
    IN  [folders |-> Sorted(folder_names),
         files |-> [i \in DOMAIN kept |->
                       [name |-> relative_path(kept[i]), full_path |-> kept[i],
                        size |-> blobs[kept[i]].size]]]

\* one call of get_folders_and_files (lines 112-157); an AzureError of the
\* listing gives ([], [])
BrowseCall ==
    /\ bpc = "idle"
    /\ \E path \in BrowsePaths, listing \in {"ok", "AzureError"} :
        /\ current_path' = path
        /\ browse_error' = (listing = "AzureError")
        /\ ret_folders' = IF listing = "ok" THEN GetFoldersAndFiles(path).folders ELSE <<>>
        /\ ret_files' = IF listing = "ok" THEN GetFoldersAndFiles(path).files ELSE <<>>
    /\ bpc' = "returned"
    /\ UNCHANGED <<csvVars, webVars, blobs, scanVars, renameVars, extVars>>

\* the caller takes the tuple and may call again
BrowseReturn ==
    /\ bpc = "returned"
    /\ bpc' = "idle"
    /\ UNCHANGED <<current_path, ret_folders, ret_files, browse_error>>
    /\ UNCHANGED <<csvVars, webVars, blobs, scanVars, renameVars, extVars>>

BrowseInit ==
    /\ CsvIdle /\ WebIdle /\ ScanIdle /\ RenameIdle /\ ExtIdle
    /\ blobs \in BrowseContainers
    /\ bpc = "idle"
    /\ current_path = <<>> /\ ret_folders = <<>> /\ ret_files = <<>> /\ browse_error = FALSE

BrowseNext == BrowseCall \/ BrowseReturn

SpecBrowse == BrowseInit /\ [][BrowseNext]_vars

----------------------------------------------------------------------------
\* Claims about get_folders_and_files.

\* the folder the argument names: the path with its trailing '/', or the root
FolderOf(path) == IF path = <<>> \/ path[Len(path)] = "/" THEN path ELSE path \o Slash

\* the blobs located under the folder, and the rest of their names
BlobsUnder(folder) ==
    {n \in DOMAIN blobs : Len(n) > Len(folder) /\ SubSeq(n, 1, Len(folder)) = folder}
RestOf(n, folder) == SubSeq(n, Len(folder) + 1, Len(n))

\* the immediate subfolders: the rest up to its first '/'
SubfoldersOf(folder) ==
    {SubSeq(RestOf(n, folder), 1, k - 1) :
        <<n, k>> \in {<<m, j>> \in BlobsUnder(folder) \X (1..12) :
                        /\ j \in DOMAIN RestOf(m, folder)
                        /\ RestOf(m, folder)[j] = "/"
                        /\ \A i \in 1..(j - 1) : RestOf(m, folder)[i] # "/"}}

\* the blobs directly in the folder that are not empty
FilesOf(folder) ==
    {n \in BlobsUnder(folder) :
        /\ \A i \in DOMAIN RestOf(n, folder) : RestOf(n, folder)[i] # "/"
        /\ blobs[n].size > 0}

\* C8: get_folders_and_files(current_path) returns the sorted, duplicate-free
\* names of the immediate subfolders of the folder current_path and exactly
\* the non-empty blobs located directly in it, the same with or without a
\* trailing '/', and no blob outside the folder contributes an entry.
C8_FoldersAndFilesOfFolder ==
    (bpc = "returned" /\ ~browse_error) =>
        LET folder == FolderOf(current_path) IN
        /\ Range(ret_folders) = SubfoldersOf(folder)
        /\ \A i, j \in DOMAIN ret_folders : i < j => StrLess(ret_folders[i], ret_folders[j])
        /\ {ret_files[i].full_path : i \in DOMAIN ret_files} = FilesOf(folder)
        /\ Len(ret_files) = Cardinality(FilesOf(folder))
        /\ \A i \in DOMAIN ret_files : ret_files[i].name = RestOf(ret_files[i].full_path, folder)

(***************************************************************************)
(* simple_rename.py: main, search_and_show_results and rename_files.       *)
(* The container answers of Azure that the code does not decide (a request *)
(* that raises, a copy that is still pending) are nondeterministic.        *)
(***************************************************************************)
S_a == <<"a">>
S_A == <<"A">>
S_b == <<"b">>
S_aa == <<"a", "a">>
S_ab == <<"a", "b">>
S_ba == <<"b", "a">>
S_d == <<"d">>

\* the blob names of the rename model
RenameNames ==
    {S_a, S_A, S_aa, S_ab, S_ba, S_d \o Slash \o S_a, S_a \o Slash \o S_a, S_d \o Slash}

\* every blob holds its own content, named after the blob; a folder marker is empty
RenameContainers ==
    {[n \in X |-> IF EndsWith(n, Slash) THEN FileBlob(0, <<>>) ELSE FileBlob(1, n)] :
        X \in SubsetsUpTo(RenameNames, MaxBlobs)}

\* what the user types (main, lines 159 and 182): never empty
SearchTerms == {S_a, S_A}
ReplaceTerms == {S_b, S_aa}

\* search_and_show_results (lines 17-33): the files whose name contains the
\* term ignoring case, in listing order
SearchAndShowResults(term) ==
    LET listed == ListBlobs(<<>>)
        found == {n \in Range(listed) :
                    /\ Contains(Lower(LastSegment(n)), Lower(term))
                    /\ ~(blobs[n].size = 0 /\ EndsWith(n, Slash))}
        kept == SelectWhere(listed, found)
    IN  [i \in DOMAIN kept |-> [name |-> LastSegment(kept[i]), path |-> kept[i]]]

\* lines 83-88 of rename_files
OldPath == results[ridx].path
OldName == results[ridx].name
NewName == Replace(OldName, search_term, replace_term)
NewPath == Replace(OldPath, search_term, replace_term)

\* lines 106-112 and 116-122: the row appended for the current file
RenameRow(status) ==
    [Old_Name |-> OldName, New_Name |-> NewName, Old_Path |-> OldPath,
     New_Path |-> NewPath, Status |-> status]

\* the loop of line 82 moves to the next file or rename_files returns
NextFile ==
    /\ ridx' = ridx + 1
    /\ rpc' = IF ridx < Len(results) THEN "copy" ELSE "done"

\* main, lines 159-185: the search, the confirmation and the replacement term
RenameSearch ==
    /\ rpc = "start"
    /\ \E term \in SearchTerms, proceed \in BOOLEAN, replacement \in ReplaceTerms :
        /\ search_term' = term
        /\ results' = SearchAndShowResults(term)
        /\ IF results' = <<>> \/ ~proceed
           THEN rpc' = "done" /\ ridx' = 0 /\ replace_term' = <<>>
           ELSE rpc' = "copy" /\ ridx' = 1 /\ replace_term' = replacement
    /\ original' = blobs
    /\ UNCHANGED <<rename_results, copy_pending, blobs>>
    /\ UNCHANGED <<csvVars, webVars, scanVars, browseVars, extVars>>

\* lines 96-98: dest_blob.start_copy_from_url(source_blob.url). The request
\* raises, or the destination holds the content of the source at once, or
\* the destination exists with the copy pending.
RenameStartCopy ==
    /\ rpc = "copy"
    /\ \E outcome \in {"raises", "copied", "pending"} :
        CASE outcome = "raises" \/ OldPath \notin DOMAIN blobs ->
               /\ rename_results' = Append(rename_results, RenameRow("Failed"))
               /\ NextFile
               /\ UNCHANGED <<blobs, copy_pending>>
          [] outcome = "copied" /\ OldPath \in DOMAIN blobs ->
               /\ blobs' = DictSet(blobs, NewPath, blobs[OldPath])
               /\ copy_pending' = FALSE
               /\ rpc' = "wait"
               /\ UNCHANGED <<ridx, rename_results>>
          [] outcome = "pending" /\ OldPath \in DOMAIN blobs ->
               /\ NewPath # OldPath
               /\ blobs' = DictSet(blobs, NewPath, FileBlob(0, <<>>))
               /\ copy_pending' = TRUE
               /\ rpc' = "wait"
               /\ UNCHANGED <<ridx, rename_results>>
    /\ UNCHANGED <<search_term, replace_term, results, original>>
    /\ UNCHANGED <<csvVars, webVars, scanVars, browseVars, extVars>>

\* line 101: time.sleep(2); a pending copy finishes meanwhile or does not
RenameWait ==
    /\ rpc = "wait"
    /\ \E finished \in BOOLEAN :
        IF copy_pending /\ finished
        THEN /\ blobs' = DictSet(blobs, NewPath, blobs[OldPath])
             /\ copy_pending' = FALSE
        ELSE UNCHANGED <<blobs, copy_pending>>
    /\ rpc' = "delete"
    /\ UNCHANGED <<search_term, replace_term, results, ridx, rename_results, original>>
    /\ UNCHANGED <<csvVars, webVars, scanVars, browseVars, extVars>>

\* lines 104-123: source_blob.delete_blob() and the row of the file. A copy
\* still pending when its source goes either had read the source or is lost.
RenameDelete ==
    /\ rpc = "delete"
    /\ \E outcome \in {"raises", "deleted"}, had_read \in BOOLEAN :
        IF outcome = "raises" \/ OldPath \notin DOMAIN blobs
        THEN /\ blobs' = IF copy_pending /\ OldPath \in DOMAIN blobs
                         THEN DictSet(blobs, NewPath, blobs[OldPath]) ELSE blobs
             /\ rename_results' = Append(rename_results, RenameRow("Failed"))
        ELSE /\ blobs' = DictPop(IF copy_pending /\ had_read
                                 THEN DictSet(blobs, NewPath, blobs[OldPath])
                                 ELSE blobs, OldPath)
             /\ rename_results' = Append(rename_results, RenameRow("Success"))
    /\ copy_pending' = FALSE
    /\ NextFile
    /\ UNCHANGED <<search_term, replace_term, results, original>>
    /\ UNCHANGED <<csvVars, webVars, scanVars, browseVars, extVars>>

RenameInit ==
    /\ CsvIdle /\ WebIdle /\ ScanIdle /\ BrowseIdle /\ ExtIdle
    /\ blobs \in RenameContainers
    /\ rpc = "start"
    /\ search_term = <<>> /\ replace_term = <<>> /\ results = <<>> /\ ridx = 0
    /\ rename_results = <<>> /\ copy_pending = FALSE /\ original = EmptyDict

RenameNext == RenameSearch \/ RenameStartCopy \/ RenameWait \/ RenameDelete

SpecRename == RenameInit /\ [][RenameNext]_vars

----------------------------------------------------------------------------
\* Claims about the rename tool.

\* the content the file had when the search found it is at the path now
ContentAt(path, file_path) ==
    path \in DOMAIN blobs /\ blobs[path].content = original[file_path].content

\* C7: rename_files never loses a file: after the call every file recorded
\* with Status 'Success' has its original content at New Path, and at no
\* point of the copy-wait-delete sequence of a file is its content at
\* neither Old Path nor New Path.
C7_RenameNeverLosesFile ==
    /\ rpc = "done" =>
        \A i \in DOMAIN rename_results :
            rename_results[i].Status = "Success" =>
                ContentAt(rename_results[i].New_Path, rename_results[i].Old_Path)
    /\ rpc \in {"copy", "wait", "delete"} =>
        ContentAt(OldPath, OldPath) \/ ContentAt(NewPath, OldPath)

\* the folder part of a path: what precedes its file name
FolderPart(path) == SubSeq(path, 1, Len(path) - Len(LastSegment(path)))

\* C19: rename_files changes only the file name: for every processed file
\* New Name is the old file name with search_term replaced by replace_term
\* and New Path is the folder part of Old Path followed by New Name, so the
\* folder components of the path are never altered.
C19_RenameChangesOnlyFileName ==
    \A i \in DOMAIN rename_results :
        /\ rename_results[i].New_Name =
               Replace(rename_results[i].Old_Name, search_term, replace_term)
        /\ rename_results[i].New_Path =
               FolderPart(rename_results[i].Old_Path) \o rename_results[i].New_Name

(***************************************************************************)
(* The report CSV: DatafeedScanner.export_to_csv writes it, and            *)
(* check_table_consistency, check_column_consistency and                   *)
(* validate_table_columns read it. A CSV file is its header and its lines  *)
(* of cell texts; a cell read back is [na, text], na for what read_csv     *)
(* turns into NaN.                                                         *)
(***************************************************************************)
\* validate_table_columns.py 404: the prefix of the rows it drops
TEST_PREFIX ==
    <<"0", "0", "0", "0", "_", "t", "e", "s", "t", "_", "p", "a", "r", "q", "u", "e", "t", "/">>

P_test == TEST_PREFIX \o <<"D">>
P_other == <<"p", "/", "D">>
T_T == <<"T">>
T_U == <<"U">>
X_Excel == <<"E", "x", "c", "e", "l">>
X_Parquet == <<"P", "a", "r", "q", "u", "e", "t">>
X_Sheet == <<"S">>
X_a == <<"a">>
X_NA == <<"N", "A">>

\* the rows generate_report can return: a Parquet row has an empty Sheet_Name
PipeRows ==
    {[Path |-> p, Source_Type |-> k[1], Sheet_Name |-> k[2], Table_Name |-> k[3],
      Column_Name |-> c] :
        p \in {P_test, P_other},
        k \in {<<X_Excel, X_Sheet, T_T>>, <<X_Parquet, <<>>, T_U>>},
        c \in {X_a, X_NA}}

\* df.to_csv(output_path, index=False) (datafeed_scanner.py 379): the header is
\* the column list of the DataFrame, a line holds the text of every value
ToCsv(frame) ==
    [exists |-> TRUE, header |-> ReportColumns,
     lines |-> [i \in DOMAIN frame |->
                   [j \in DOMAIN ReportColumns |-> frame[i][ReportColumns[j]]]]]

\* texts that pd.read_csv reads as NaN (of its default na_values)
NaTexts == {<<>>, X_NA}

\* pd.read_csv(csv_file): one row per line, a cell per column of the header
ReadCsv(file) ==
    [i \in DOMAIN file.lines |->
        [c \in Range(file.header) |->
            LET text == file.lines[i][CHOOSE j \in DOMAIN file.header : file.header[j] = c]
            IN  [na |-> text \in NaTexts, text |-> text]]]

\* the columns check_table_consistency.py reads from df (69-97, 134)
TableCheckColumns == {"Path", "Table_Name", "Source_Type"}
\* the columns check_column_consistency.py reads from df (42-94)
ColumnCheckColumns == {"Table_Name", "Path", "Source_Type", "Column_Name"}

\* how a script that reads the columns `wanted` at module level ends
ScriptRun(file, wanted) ==
    IF ~file.exists THEN "FileNotFoundError"
    ELSE IF wanted \subseteq Range(file.header) THEN "completed"
    ELSE "KeyError"

RECURSIVE Strip(_)
\* str.strip(): without the blanks at both ends
Strip(str) ==
    IF str # <<>> /\ str[1] = " " THEN Strip(Tail(str))
    ELSE IF str # <<>> /\ str[Len(str)] = " " THEN Strip(SubSeq(str, 1, Len(str) - 1))
    ELSE str

\* parse_columns (validate_table_columns.py 369-380)
ParseColumns(column_string) ==
    IF column_string.na \/ column_string.text = <<>> THEN {}
    ELSE {Strip(col) : col \in Range(Split(column_string.text, ","))}

\* a filter that keeps the test rows
KeptRowsAll(frame) == frame

\* line 404: df[~df['Path'].str.startswith('0000_test_parquet/')]
KeptRows(frame) ==
    SelectWhere(frame, {r \in Range(frame) : ~StartsWith(r["Path"].text, TEST_PREFIX)})

\* lines 413-424: table_data[table_name], the column sets of its rows in order
Instances(frame, table_name) ==
    LET RECURSIVE of(_)
        of(rows) ==
            IF rows = <<>> THEN <<>>
            ELSE IF Head(rows)["Table_Name"].text = table_name
            THEN <<ParseColumns(Head(rows)["Columns"])>> \o of(Tail(rows))
            ELSE of(Tail(rows))
    IN  of(frame)

RECURSIVE IntersectionOf(_)
\* set.intersection(*sets) and set.union(*sets) of a non-empty list
IntersectionOf(sets) ==
    IF Len(sets) = 1 THEN sets[1] ELSE sets[1] \cap IntersectionOf(Tail(sets))
UnionOf(sets) == UNION Range(sets)

\* lines 440-460: the test that puts a table into consistent_tables
IsConsistentTable(instances) ==
    \/ Len(instances) = 1
    \/ IntersectionOf(instances) = UnionOf(instances)

\* validate_table_columns (383-600): how the call ends and the dict it
\* returns; the entries of the two lists are reduced to the table names
ValidateTableColumns(file) ==
    IF ~file.exists THEN [status |-> "exit1", results |-> NoAnalysis]
    ELSE IF "Path" \notin Range(file.header)
    THEN [status |-> "KeyError", results |-> NoAnalysis]
    ELSE LET frame == KeptRows(ReadCsv(file)) IN
         IF Len(frame) = 0 THEN [status |-> "no_data", results |-> NoAnalysis]
         ELSE IF ~({"Table_Name", "Columns"} \subseteq Range(file.header))
         THEN [status |-> "KeyError", results |-> NoAnalysis]
         ELSE LET names == Sorted({frame[i]["Table_Name"].text : i \in DOMAIN frame})
                  consistent == {t \in Range(names) : IsConsistentTable(Instances(frame, t))}
                  consistent_list == SelectWhere(names, consistent)
                  inconsistent_list == SelectWhere(names, Range(names) \ consistent)
              IN  [status |-> "completed",
                   results |-> [total_tables |-> Len(names),
                                consistent_count |-> Len(consistent_list),
                                inconsistent_count |-> Len(inconsistent_list),
                                consistent_tables |-> consistent_list,
                                inconsistent_tables |-> inconsistent_list]]

PipeFrame ==
    /\ UNCHANGED <<csvVars, webVars, blobs, scanVars, browseVars, renameVars>>
    /\ UNCHANGED <<mgrVars, searchVars, cfgVars, replVars>>

\* DatafeedScanner.export_to_csv (346-384): nothing is written for an empty
\* DataFrame, and an error of the write is printed
ExportToCsv ==
    /\ ppc = "generated"
    /\ \E written \in BOOLEAN :
        csv_file' = IF report_df # <<>> /\ written THEN ToCsv(report_df) ELSE csv_file
    /\ ppc' = "exported"
    /\ UNCHANGED <<report_df, reader, run_status, analysis_results>>
    /\ PipeFrame

\* check_table_consistency.py run as a script
RunTableCheck ==
    /\ ppc = "exported"
    /\ reader' = "check_table_consistency"
    /\ run_status' = ScriptRun(csv_file, TableCheckColumns)
    /\ ppc' = "ran"
    /\ UNCHANGED <<report_df, csv_file, analysis_results>>
    /\ PipeFrame

\* check_column_consistency.py run as a script
RunColumnCheck ==
    /\ ppc = "exported"
    /\ reader' = "check_column_consistency"
    /\ run_status' = ScriptRun(csv_file, ColumnCheckColumns)
    /\ ppc' = "ran"
    /\ UNCHANGED <<report_df, csv_file, analysis_results>>
    /\ PipeFrame

\* validate_table_columns(csv_file)
RunValidate ==
    /\ ppc = "exported"
    /\ reader' = "validate_table_columns"
    /\ run_status' = ValidateTableColumns(csv_file).status
    /\ analysis_results' = ValidateTableColumns(csv_file).results
    /\ ppc' = "ran"
    /\ UNCHANGED <<report_df, csv_file>>
    /\ PipeFrame

PipeInit ==
    /\ CsvIdle /\ WebIdle /\ NoContainer /\ ScanIdle /\ BrowseIdle /\ RenameIdle
    /\ MgrIdle /\ SearchIdle /\ CfgIdle /\ ReplIdle
    /\ ppc = "generated"
    /\ report_df \in SeqsUpTo(PipeRows, MaxCsvLines)
    /\ csv_file = NoFile
    /\ reader = "none" /\ run_status = "none" /\ analysis_results = NoAnalysis

PipeNext == ExportToCsv \/ RunTableCheck \/ RunColumnCheck \/ RunValidate

SpecPipeline == PipeInit /\ [][PipeNext]_vars

\* the Columns texts of a CSV that has the column validate_table_columns reads
C_ab == <<"a", ",", "b">>
C_b_a == <<"b", ",", " ", "a">>
C_a == <<"a">>
ColumnsTexts == {C_ab, C_b_a, C_a, <<>>}

\* the CSV files with the columns Path, Table_Name, Columns
ColumnsCsvFiles ==
    {[exists |-> TRUE, header |-> <<"Path", "Table_Name", "Columns">>, lines |-> l] :
        l \in SeqsUpTo({<<p, t, c>> : p \in {P_test, P_other}, t \in {T_T, T_U},
                                     c \in ColumnsTexts}, MaxCsvLines)}

ValidateInit ==
    /\ CsvIdle /\ WebIdle /\ NoContainer /\ ScanIdle /\ BrowseIdle /\ RenameIdle
    /\ MgrIdle /\ SearchIdle /\ CfgIdle /\ ReplIdle
    /\ ppc = "exported"
    /\ report_df = <<>>
    /\ csv_file \in ColumnsCsvFiles
    /\ reader = "none" /\ run_status = "none" /\ analysis_results = NoAnalysis

ValidateNext == RunValidate

SpecValidate == ValidateInit /\ [][ValidateNext]_vars

----------------------------------------------------------------------------
\* Claims about the report CSV and its readers.

\* C11: the CSV that export_to_csv writes is accepted by every consistency
\* script: each of the three reads only columns the CSV contains, so every
\* run on a written report completes.
C11_ReportCsvAccepted ==
    (ppc = "ran" /\ csv_file.exists) => run_status \in {"completed", "no_data"}

\* the lines of the CSV that validate_table_columns keeps, and their tables
KeptLines ==
    {i \in DOMAIN csv_file.lines :
        ~(/\ Len(csv_file.lines[i][1]) >= Len(TEST_PREFIX)
          /\ \A k \in DOMAIN TEST_PREFIX : csv_file.lines[i][1][k] = TEST_PREFIX[k])}
KeptTables == {csv_file.lines[i][2] : i \in KeptLines}
LinesOfTable(t) == {i \in KeptLines : csv_file.lines[i][2] = t}

\* the column set that each Columns text of the model stands for
ColumnSetOf(text) ==
    CASE text = C_ab -> {<<"a">>, <<"b">>}
      [] text = C_b_a -> {<<"a">>, <<"b">>}
      [] text = C_a -> {<<"a">>}
      [] text = <<>> -> {}

SameColumnsEverywhere(t) ==
    \A i, j \in LinesOfTable(t) :
        ColumnSetOf(csv_file.lines[i][3]) = ColumnSetOf(csv_file.lines[j][3])

ExceptionKinds ==
    {"ValueError", "ResourceNotFoundError", "AzureError", "OSError", "KeyboardInterrupt"}

IsInstance(kind, class) ==
    CASE class = "BaseException" -> TRUE
      [] class = "Exception" -> kind # "KeyboardInterrupt"
      [] class = "AzureError" -> kind \in {"AzureError", "ResourceNotFoundError"}
      [] OTHER -> kind = class

\* try/except: the first clause of the list that catches the exception, 0 if none
CaughtBy(kind, clauses) ==
    IF \E i \in DOMAIN clauses : IsInstance(kind, clauses[i])
    THEN CHOOSE i \in DOMAIN clauses :
            /\ IsInstance(kind, clauses[i])
            /\ \A j \in 1..(i - 1) : ~IsInstance(kind, clauses[j])
    ELSE 0

\* the except clauses of __init__ without the last one
InitClausesNoCatchAll == <<"ValueError", "ResourceNotFoundError", "AzureError">>

\* the except clauses of __init__ (lines 66-81): each one ends in sys.exit(1)
InitClauses == <<"ValueError", "ResourceNotFoundError", "AzureError", "Exception">>

\* the steps of __init__ that call out of the module, in order
InitSteps == <<"get_config", "credential", "client", "properties">>

\* the environments and faults of a construction
MgrEnvs ==
    [account_name : {None, "", "account"}, tenant_id : {None, "tenant"},
     credential : {None, "credential"}]
MgrFaults == {NoFault} \cup [at : Range(InitSteps) \ {"get_config"}, kind : ExceptionKinds]

\* the exception that the try block of __init__ (lines 32-64) raises, "none"
\* if it runs to its end: Config raises ValueError without an account name
\* (config.py 21-25), InteractiveBrowserCredential is built only when no
\* credential was passed
InitRaises(env, fault) ==
    IF ~Truthy(env.account_name) THEN "ValueError"
    ELSE IF fault.at = "credential" /\ Truthy(env.credential) THEN "none"
    ELSE fault.kind

\* AzureFileManager.__init__ (lines 25-81)
Construct ==
    /\ mpc = "new"
    /\ LET raised == InitRaises(mgr_env, mgr_fault) IN
       IF raised = "none"
       THEN mpc' = "connected" /\ UNCHANGED <<exit_status, propagated>>
       ELSE IF CaughtBy(raised, InitClauses) # 0
       THEN mpc' = "exited" /\ exit_status' = 1 /\ UNCHANGED propagated
       ELSE mpc' = "raised" /\ propagated' = raised /\ UNCHANGED exit_status
    /\ UNCHANGED <<mgr_env, mgr_fault, last_call, returned, contacted, used_blob_name>>
    /\ UNCHANGED <<csvVars, webVars, blobs, scanVars, browseVars, renameVars, pipeVars,
                   searchVars, cfgVars, replVars>>

N_dir_f_txt == <<"d", "i", "r", "/", "f", ".", "t", "x", "t">>
N_f_txt == <<"f", ".", "t", "x", "t">>
N_b == <<"b">>

\* the except clauses of download_blob (190-198) and upload_blob (233-238):
\* each one returns False
DownloadClauses == <<"ResourceNotFoundError", "AzureError", "Exception">>
\* the except clauses of upload_blob without the last one
UploadClausesAzureOnly == <<"AzureError">>
UploadClauses == <<"AzureError", "Exception">>

\* the steps of download_blob that can raise, with what the file system or the
\* SDK raises there; blob_client.download_blob() is the first request
DownloadFaults ==
    {NoFault} \cup [at : {"mkdir", "open"}, kind : {"OSError", "KeyboardInterrupt"}]
              \cup [at : {"download"},
                    kind : {"ResourceNotFoundError", "AzureError", "OSError",
                            "KeyboardInterrupt"}]

\* the steps of upload_blob that can raise; container_client.upload_blob(...)
\* is the first request
UploadFaults ==
    {NoFault} \cup [at : {"open"}, kind : {"OSError", "KeyboardInterrupt"}]
              \cup [at : {"upload"}, kind : {"AzureError", "OSError", "KeyboardInterrupt"}]

\* how a call ends whose try block raised `raised` ("none": ran to its end)
CallEnds(raised, clauses) ==
    /\ returned' = IF raised = "none" THEN "True"
                   ELSE IF CaughtBy(raised, clauses) # 0 THEN "False" ELSE "none"
    /\ propagated' = IF raised # "none" /\ CaughtBy(raised, clauses) = 0
                     THEN raised ELSE "none"
    /\ mpc' = IF raised # "none" /\ CaughtBy(raised, clauses) = 0
              THEN "raised" ELSE "connected"

\* download_blob (lines 162-198)
DownloadBlob ==
    /\ mpc = "connected"
    /\ \E blob_name \in {N_dir_f_txt, N_b}, path_given \in BOOLEAN, fault \in DownloadFaults :
        /\ last_call' = [op |-> "download", blob_name |-> blob_name,
                         blob_name_given |-> TRUE,
                         path |-> IF path_given THEN N_f_txt
                                  ELSE <<"d", "o", "w", "n", "l", "o", "a", "d", "s", "/">>
                                       \o LastSegment(blob_name),
                         path_given |-> path_given, local |-> "none", fault |-> fault]
        /\ contacted' = (fault.at \in {"none", "download"})
        /\ used_blob_name' = blob_name
        /\ CallEnds(fault.kind, DownloadClauses)
    /\ UNCHANGED <<mgr_env, mgr_fault, exit_status>>
    /\ UNCHANGED <<csvVars, webVars, blobs, scanVars, browseVars, renameVars, pipeVars,
                   searchVars, cfgVars, replVars>>

\* lines 205-211: upload_blob returns False before the upload is prepared
UploadStopsEarly(local) == local \in {"missing", "directory"}

\* upload_blob (lines 200-238); `local` is what local_file_path names on disk
UploadBlob ==
    /\ mpc = "connected"
    /\ \E local \in {"missing", "directory", "file"}, blob_name_given \in BOOLEAN,
          fault \in UploadFaults :
        LET stops == UploadStopsEarly(local) IN
        /\ last_call' = [op |-> "upload", blob_name |-> IF blob_name_given THEN N_b ELSE <<>>,
                         blob_name_given |-> blob_name_given, path |-> N_dir_f_txt,
                         path_given |-> TRUE, local |-> local,
                         fault |-> IF stops THEN NoFault ELSE fault]
        /\ used_blob_name' = IF stops THEN <<>>
                             ELSE IF blob_name_given THEN N_b ELSE LastSegment(N_dir_f_txt)
        /\ contacted' = (~stops /\ fault.at \in {"none", "upload"})
        /\ IF stops
           THEN returned' = "False" /\ propagated' = "none" /\ mpc' = "connected"
           ELSE CallEnds(fault.kind, UploadClauses)
    /\ UNCHANGED <<mgr_env, mgr_fault, exit_status>>
    /\ UNCHANGED <<csvVars, webVars, blobs, scanVars, browseVars, renameVars, pipeVars,
                   searchVars, cfgVars, replVars>>

MgrInit ==
    /\ CsvIdle /\ WebIdle /\ NoContainer /\ ScanIdle /\ BrowseIdle /\ RenameIdle
    /\ PipeIdle /\ SearchIdle /\ CfgIdle /\ ReplIdle
    /\ mpc = "new"
    /\ mgr_env \in MgrEnvs
    /\ mgr_fault \in MgrFaults
    /\ exit_status = -1 /\ propagated = "none"
    /\ last_call = NoCall /\ returned = "none" /\ contacted = FALSE
    /\ used_blob_name = <<>>

MgrNext == Construct \/ DownloadBlob \/ UploadBlob

SpecManager == MgrInit /\ [][MgrNext]_vars

----------------------------------------------------------------------------
\* Claims about AzureFileManager.

\* the construction ran into nothing: an account name is set and no step raised
CleanConstruction ==
    /\ mgr_env.account_name \notin {None, ""}
    /\ \/ mgr_fault.at = "none"
       \/ mgr_fault.at = "credential" /\ mgr_env.credential # None

TransferCompleted ==
    /\ last_call.fault = NoFault
    /\ last_call.op = "upload" => last_call.local = "file"

\* the blob name and the early return of an upload
UploadContract ==
    last_call.op = "upload" =>
        /\ last_call.local \in {"missing", "directory"} =>
               returned = "False" /\ ~contacted
        /\ (last_call.local = "file" /\ ~last_call.blob_name_given /\ contacted) =>
               /\ used_blob_name # <<>>
               /\ \A i \in DOMAIN used_blob_name : used_blob_name[i] # "/"
               /\ \/ last_call.path = used_blob_name
                  \/ EndsWith(last_call.path, <<"/">> \o used_blob_name)

\* C13 as stated: download_blob and upload_blob never raise; each returns
\* True after a completed transfer and False on any failure; upload_blob
\* returns False without contacting storage for a missing or non-file path
\* and uses the local file name when no blob name is given.
C13_TransfersNeverRaise ==
    last_call.op # "none" =>
        /\ propagated = "none" /\ mpc = "connected"
        /\ returned = IF TransferCompleted THEN "True" ELSE "False"
        /\ UploadContract

\* C13 amended: each call returns True after a completed transfer and False
\* on every failure that is an exception derived from Exception (blob not
\* found, Azure error, OS error); only an exception that does not derive from
\* Exception (KeyboardInterrupt) leaves the call; the upload contract holds.
C13_TransfersReturnUnlessInterrupted ==
    last_call.op # "none" =>
        /\ IF last_call.fault.kind = "KeyboardInterrupt"
           THEN propagated = "KeyboardInterrupt" /\ returned = "none" /\ mpc = "raised"
           ELSE /\ propagated = "none" /\ mpc = "connected"
                /\ returned = IF TransferCompleted THEN "True" ELSE "False"
        /\ UploadContract

\* C13 witness: an upload of a directory path that returned False without a
\* request, after the manager was connected.
C13_Witness ==
    /\ last_call.op = "upload" /\ last_call.local = "directory"
    /\ returned = "False" /\ ~contacted /\ mpc = "connected"

(***************************************************************************)
(* search_blob.py: search_blobs. The results list is what the function     *)
(* prints; a result keeps name, path and is_folder.                        *)
(***************************************************************************)
S_food == <<"f", "o", "o", "d">>
S_x == <<"x">>
F_Foo_txt == <<"F", "o", "o", ".", "t", "x", "t">>
F_bar_txt == <<"b", "a", "r", ".", "t", "x", "t">>

\* the blob names of the search model: folder markers end in '/'
SearchNames ==
    { S_foo \o Slash,
      S_x \o Slash \o S_foo \o Slash,
      S_foo \o Slash \o F_bar_txt,
      S_x \o Slash \o F_Foo_txt,
      S_food }

\* a blob whose name ends in '/' is an empty folder marker; a file is empty or not
SearchContainers ==
    UNION {{c \in [X -> {FileBlob(0, <<>>), FileBlob(1, <<>>)}] :
               \A n \in X : EndsWith(n, Slash) => c[n].size = 0} :
           X \in SubsetsUpTo(SearchNames, MaxBlobs)}

\* what the user types (main, 96-109): a non-empty term, a mode, a filter
SearchQueries ==
    [search_term : {S_foo, <<"F", "O">>, <<"o", "o">>, F_bar_txt},
     search_mode : {"starts_with", "contains"},
     type_filter : {"all", "files", "folders"}]

\* lines 56-57 of search_blobs
SearchFileName(name) == LastSegment(name)
IsFolder(name) == blobs[name].size = 0 /\ EndsWith(name, Slash)

\* lines 59-63: the search mode
SearchMatches(name, q) ==
    IF q.search_mode = "starts_with"
    THEN StartsWith(Lower(SearchFileName(name)), Lower(q.search_term))
    ELSE Contains(Lower(SearchFileName(name)), Lower(q.search_term))

\* lines 65-72: the blob is appended to results
SearchKeeps(name, q) ==
    /\ SearchMatches(name, q)
    /\ ~(q.type_filter = "files" /\ IsFolder(name))
    /\ ~(q.type_filter = "folders" /\ ~IsFolder(name))

\* search_blobs (lines 43-93): the results in listing order
SearchBlobsResults(q) ==
    LET listed == ListBlobs(<<>>)
        kept == SelectWhere(listed, {n \in Range(listed) : SearchKeeps(n, q)})
    IN  [i \in DOMAIN kept |->
            [name |-> SearchFileName(kept[i]), path |-> kept[i],
             is_folder |-> IsFolder(kept[i])]]

SearchFrame ==
    /\ UNCHANGED <<csvVars, webVars, blobs, scanVars, browseVars, renameVars>>
    /\ UNCHANGED <<pipeVars, mgrVars, cfgVars, replVars>>

\* one call of search_blobs
SearchCall ==
    /\ qpc = "idle"
    /\ \E q \in SearchQueries :
        /\ query' = q
        /\ search_results' = SearchBlobsResults(q)
    /\ qpc' = "searched"
    /\ SearchFrame

\* the caller may search again
SearchReturn ==
    /\ qpc = "searched"
    /\ qpc' = "idle"
    /\ UNCHANGED <<query, search_results>>
    /\ SearchFrame

SearchInit ==
    /\ CsvIdle /\ WebIdle /\ ScanIdle /\ BrowseIdle /\ RenameIdle
    /\ PipeIdle /\ MgrIdle /\ CfgIdle /\ ReplIdle
    /\ blobs \in SearchContainers
    /\ qpc = "idle" /\ query = NoQuery /\ search_results = <<>>

SearchNext == SearchCall \/ SearchReturn

SpecSearch == SearchInit /\ [][SearchNext]_vars

----------------------------------------------------------------------------
\* Claims about search_blobs.

\* a folder marker: an empty blob whose name ends in '/'
IsMarker(n) == blobs[n].size = 0 /\ n[Len(n)] = "/"

\* the name of the item: the last path component, for a folder marker the
\* component before the final '/'
ItemName(n) ==
    LET body == IF n[Len(n)] = "/" /\ IsMarker(n) THEN SubSeq(n, 1, Len(n) - 1) ELSE n
        starts == {k \in 1..(Len(body) + 1) :
                     /\ k = 1 \/ body[k - 1] = "/"
                     /\ \A j \in k..Len(body) : body[j] # "/"}
    IN  SubSeq(body, CHOOSE k \in starts : TRUE, Len(body))

\* the item name matches the term ignoring case
NameMatches(n) ==
    LET item == ItemName(n)
        term == query.search_term
        same(a, b) == LowerChar(a) = LowerChar(b)
        at(k) == /\ k + Len(term) - 1 <= Len(item)
                 /\ \A j \in DOMAIN term : same(item[k + j - 1], term[j])
    IN  IF query.search_mode = "starts_with" THEN at(1)
        ELSE \E k \in 1..Len(item) : at(k)

\* C14: search_blobs lists a blob iff the name of the item matches the term
\* ignoring case in the chosen mode and it passes the type filter: 'files'
\* excludes the folder markers, 'folders' keeps exactly the folder markers
\* whose folder name matches, 'all' keeps both kinds.
C14_SearchListsMatches ==
    qpc = "searched" =>
        {search_results[i].path : i \in DOMAIN search_results} =
            {n \in DOMAIN blobs :
                /\ NameMatches(n)
                /\ query.type_filter = "files" => ~IsMarker(n)
                /\ query.type_filter = "folders" => IsMarker(n)}

(***************************************************************************)
(* web_config.py: the class body of WebConfig, WebConfig.validate and      *)
(* init_app_config.                                                        *)
(***************************************************************************)
\* line 16: the default of SECRET_KEY
DEV_SECRET_KEY == "dev-secret-key-change-in-production"

\* os.getenv(key) and os.getenv(key, default)
GetEnv(env, key) == env[key]
GetEnvDefault(env, key, default) == IF env[key] = None THEN default ELSE env[key]

RequiredSettings ==
    <<"AZURE_CLIENT_ID", "AZURE_CLIENT_SECRET", "AZURE_TENANT_ID",
      "AZURE_STORAGE_ACCOUNT_NAME">>

\* the environments of the model: a variable is unset, empty or set
Environments ==
    {e \in [Range(RequiredSettings) \cup {"FLASK_ENV", "FLASK_SECRET_KEY"} ->
               {None, "", "set", "production", "development", DEV_SECRET_KEY}] :
        /\ \A k \in Range(RequiredSettings) : e[k] \in {None, "", "set"}
        /\ e["FLASK_ENV"] \in {None, "production", "development"}
        /\ e["FLASK_SECRET_KEY"] \in {None, "", "set", DEV_SECRET_KEY}}

\* the class attributes that validate reads (lines 16, 29-37)
ClassBody(env) ==
    [k \in Range(RequiredSettings) \cup {"SECRET_KEY", "ENV"} |->
        CASE k = "SECRET_KEY" -> GetEnvDefault(env, "FLASK_SECRET_KEY", DEV_SECRET_KEY)
          [] k = "ENV" -> GetEnvDefault(env, "FLASK_ENV", "development")
          [] OTHER -> GetEnv(env, k)]

\* the message validate appends for a setting (52-62)
RequiredMessage(k) == <<k, "environment variable is required">>
SecretKeyMessage == <<"FLASK_SECRET_KEY", "must be set to a random value in production">>

\* a validate that stops at the first missing setting
ValidateErrorsFirstOnly(cls) ==
    LET missing == SelectWhere(RequiredSettings,
                               {k \in Range(RequiredSettings) : ~Truthy(cls[k])})
    IN  IF missing # <<>> THEN <<RequiredMessage(missing[1])>>
        ELSE IF cls["ENV"] = "production" /\ cls["SECRET_KEY"] = DEV_SECRET_KEY
        THEN <<SecretKeyMessage>> ELSE <<>>

\* WebConfig.validate (43-69): the errors list; ValueError is raised iff it
\* is not empty
ValidateErrors(cls) ==
    LET missing == SelectWhere(RequiredSettings,
                               {k \in Range(RequiredSettings) : ~Truthy(cls[k])})
    IN  [i \in DOMAIN missing |-> RequiredMessage(missing[i])]
        \o (IF cls["ENV"] = "production" /\ cls["SECRET_KEY"] = DEV_SECRET_KEY
            THEN <<SecretKeyMessage>> ELSE <<>>)

CfgFrame ==
    /\ UNCHANGED <<csvVars, webVars, blobs, scanVars, browseVars, renameVars>>
    /\ UNCHANGED <<pipeVars, mgrVars, searchVars, replVars>>

\* the module is imported: the class body runs
ImportWebConfig ==
    /\ cfg_pc = "env"
    /\ web_config' = ClassBody(os_environ)
    /\ cfg_pc' = "loaded"
    /\ UNCHANGED <<os_environ, cfg_errors, cfg_raised>>
    /\ CfgFrame

\* init_app_config (88-107): validate, and the ValueError raised again
InitAppConfig ==
    /\ cfg_pc = "loaded"
    /\ cfg_errors' = ValidateErrors(web_config)
    /\ cfg_raised' = IF cfg_errors' # <<>> THEN "ValueError" ELSE "none"
    /\ cfg_pc' = IF cfg_errors' # <<>> THEN "failed" ELSE "started"
    /\ UNCHANGED <<os_environ, web_config>>
    /\ CfgFrame

CfgInit ==
    /\ CsvIdle /\ WebIdle /\ NoContainer /\ ScanIdle /\ BrowseIdle /\ RenameIdle
    /\ PipeIdle /\ MgrIdle /\ SearchIdle /\ ReplIdle
    /\ cfg_pc = "env"
    /\ os_environ \in Environments
    /\ web_config = EmptyDict /\ cfg_errors = <<>> /\ cfg_raised = "none"

CfgNext == ImportWebConfig \/ InitAppConfig

SpecConfig == CfgInit /\ [][CfgNext]_vars

----------------------------------------------------------------------------
\* Claims about WebConfig.

\* the requirements that the environment violates
MissingSettings == {k \in Range(RequiredSettings) : os_environ[k] \in {None, ""}}
DefaultKeyInProduction ==
    /\ os_environ["FLASK_ENV"] = "production"
    /\ os_environ["FLASK_SECRET_KEY"] \in {None, DEV_SECRET_KEY}

\* C17: validate raises ValueError iff one of the four Azure settings is
\* unset or empty or ENV is 'production' while SECRET_KEY has the development
\* default; the message lists every violated requirement; init_app_config
\* raises it again, so the application does not start.
C17_ValidateRejects ==
    cfg_pc \in {"started", "failed"} =>
        /\ (cfg_raised = "ValueError") <=> (MissingSettings # {} \/ DefaultKeyInProduction)
        /\ cfg_pc = "failed" <=> cfg_raised = "ValueError"
        /\ \A k \in Range(RequiredSettings) :
               k \in MissingSettings <=> \E i \in DOMAIN cfg_errors : cfg_errors[i][1] = k
        /\ DefaultKeyInProduction <=>
               \E i \in DOMAIN cfg_errors : cfg_errors[i][1] = "FLASK_SECRET_KEY"

\* C17 witness: a production environment with two settings missing and the
\* default secret key, rejected with three messages.
C17_Witness ==
    /\ cfg_pc = "failed" /\ cfg_raised = "ValueError"
    /\ Cardinality(MissingSettings) = 2 /\ DefaultKeyInProduction
    /\ Len(cfg_errors) = 3

(***************************************************************************)
(* azure_file_manager.py: browse_folders, the interactive folder browser.  *)
(* One action is one iteration of its loop: the listing of the current     *)
(* location, the input and the branch the choice selects.                  *)
(***************************************************************************)
\* the superscript two: a character for which str.isdigit() is True and
\* that int() does not accept
SuperscriptTwo == "<U+00B2>"
DecimalChars == {"0", "1", "2", "3", "4", "5", "6", "7", "8", "9"}

\* str.isdigit(): not empty, every character a digit
IsDigit(str) ==
    str # <<>> /\ \A i \in DOMAIN str : str[i] \in DecimalChars \cup {SuperscriptTwo}

RECURSIVE DecimalValue(_)
\* the number a string of decimal characters stands for
DecimalValue(str) ==
    IF str = <<>> THEN 0
    ELSE 10 * DecimalValue(SubSeq(str, 1, Len(str) - 1)) + (Ord(str[Len(str)]) - Ord("0"))

\* int(str): the value, or ValueError for a character that is no decimal
IntOf(str) ==
    IF str # <<>> /\ \A i \in DOMAIN str : str[i] \in DecimalChars
    THEN [raised |-> "none", value |-> DecimalValue(str)]
    ELSE [raised |-> "ValueError", value |-> 0]

\* what the user types at "Enter your choice: "
RawInputs ==
    { <<"q">>, <<" ", "Q">>, <<"b">>, <<"j">>, <<"d">>, <<"u">>, <<"x">>, <<>>,
      <<"0">>, <<"1">>, <<"2">>, <<"3">>, <<SuperscriptTwo>> }

\* what the user types as starting path and as path to jump to
TypedPaths == {<<>>, S_foo, S_foo \o Slash, S_foobar}

\* line 295: input(...).strip().lower()
ChoiceOf(raw) == Lower(Strip(raw))

\* the branch of the if/elif chain of lines 297-366 that a choice takes
BranchOf(c) ==
    IF c = <<"q">> THEN "q"
    ELSE IF c = <<"b">> THEN "b"
    ELSE IF c = <<"j">> THEN "j"
    ELSE IF c = <<"d">> THEN "d"
    ELSE IF c = <<"u">> THEN "u"
    ELSE IF IsDigit(c) THEN "number"
    ELSE "invalid"

\* path.rsplit('/', 1)[0] for a path that contains '/'
RSplitHead(path) ==
    LET k == CHOOSE i \in DOMAIN path :
                 path[i] = "/" /\ \A j \in (i + 1)..Len(path) : path[j] # "/"
    IN  SubSeq(path, 1, k - 1)

\* lines 299-309: the location after 'b'
GoBack(current) ==
    IF current = <<>> THEN <<>>
    ELSE LET path == RStrip(current, "/")
         IN  IF Contains(path, Slash) THEN RSplitHead(path) \o Slash ELSE <<>>

\* lines 347-350: the location after a folder was selected
EnterFolder(current, selected_folder) ==
    IF current # <<>>
    THEN RStrip(current, "/") \o Slash \o selected_folder \o Slash
    ELSE selected_folder \o Slash

\* line 266: the tuple of get_folders_and_files, ([], []) after an AzureError
Listing(path, listing) ==
    IF listing = "ok" THEN GetFoldersAndFiles(path) ELSE [folders |-> <<>>, files |-> <<>>]

ReplFrame ==
    /\ UNCHANGED <<csvVars, webVars, blobs, scanVars, browseVars, renameVars>>
    /\ UNCHANGED <<pipeVars, mgrVars, searchVars, cfgVars>>

\* an iteration that leaves the location as it is
ReplStays(c, step) ==
    /\ choice' = c /\ last_step' = step
    /\ UNCHANGED <<lpc, browse_path, entered_from, ended_by>>

\* main, choice "1" (lines 385-388): browse_folders(manager, start_path)
ReplStart ==
    /\ lpc = "main"
    /\ \E start_path \in TypedPaths : browse_path' = start_path
    /\ lpc' = "loop"
    /\ UNCHANGED <<choice, last_step, entered_from, ended_by>>
    /\ ReplFrame

\* Ctrl-C at a prompt: input() raises KeyboardInterrupt, which leaves the loop
ReplInterrupt ==
    /\ lpc = "loop"
    /\ lpc' = "ended" /\ ended_by' = "KeyboardInterrupt" /\ last_step' = "raised"
    /\ UNCHANGED <<browse_path, choice, entered_from>>
    /\ ReplFrame

\* 'q' (297-298)
ReplQuit ==
    /\ lpc = "loop"
    /\ \E raw \in RawInputs :
        /\ BranchOf(ChoiceOf(raw)) = "q"
        /\ choice' = ChoiceOf(raw)
    /\ lpc' = "ended" /\ ended_by' = "q" /\ last_step' = "quit"
    /\ UNCHANGED <<browse_path, entered_from>>
    /\ ReplFrame

\* 'b' (299-311)
ReplBack ==
    /\ lpc = "loop"
    /\ \E raw \in RawInputs :
        /\ BranchOf(ChoiceOf(raw)) = "b"
        /\ choice' = ChoiceOf(raw)
    /\ browse_path' = GoBack(browse_path)
    /\ last_step' = "back"
    /\ UNCHANGED <<lpc, entered_from, ended_by>>
    /\ ReplFrame

\* 'j' (312-315)
ReplJump ==
    /\ lpc = "loop"
    /\ \E raw \in RawInputs, jump_path \in TypedPaths :
        /\ BranchOf(ChoiceOf(raw)) = "j"
        /\ choice' = ChoiceOf(raw)
        /\ browse_path' = jump_path
    /\ last_step' = "jump"
    /\ UNCHANGED <<lpc, entered_from, ended_by>>
    /\ ReplFrame

\* 'd' and 'u' (316-337): download_blob and upload_blob return True or False
\* and the location stays
ReplTransfer ==
    /\ lpc = "loop"
    /\ \E raw \in RawInputs :
        /\ BranchOf(ChoiceOf(raw)) \in {"d", "u"}
        /\ ReplStays(ChoiceOf(raw), IF BranchOf(ChoiceOf(raw)) = "d" THEN "download" ELSE "upload")
    /\ ReplFrame

\* a number (338-364): int(choice), then the folder is entered, the file is
\* shown or the number is refused
ReplNumber ==
    /\ lpc = "loop"
    /\ \E raw \in RawInputs, listing \in {"ok", "AzureError"} :
        LET c == ChoiceOf(raw)
            shown == Listing(browse_path, listing)
            item_num == IntOf(c)
            total_items == Len(shown.folders) + Len(shown.files)
        IN  /\ BranchOf(c) = "number"
            /\ IF item_num.raised # "none"
               THEN /\ choice' = c /\ last_step' = "raised"
                    /\ lpc' = "ended" /\ ended_by' = item_num.raised
                    /\ UNCHANGED <<browse_path, entered_from>>
               ELSE IF ~(1 <= item_num.value /\ item_num.value <= total_items)
               THEN ReplStays(c, "invalid number")
               ELSE IF item_num.value <= Len(shown.folders)
               THEN /\ browse_path' = EnterFolder(browse_path, shown.folders[item_num.value])
                    /\ entered_from' = browse_path
                    /\ choice' = c /\ last_step' = "folder"
                    /\ UNCHANGED <<lpc, ended_by>>
               ELSE ReplStays(c, "file")
    /\ ReplFrame

\* anything else (365-366)
ReplInvalid ==
    /\ lpc = "loop"
    /\ \E raw \in RawInputs :
        /\ BranchOf(ChoiceOf(raw)) = "invalid"
        /\ ReplStays(ChoiceOf(raw), "invalid command")
    /\ ReplFrame

ReplInit ==
    /\ CsvIdle /\ WebIdle /\ ScanIdle /\ BrowseIdle /\ RenameIdle
    /\ PipeIdle /\ MgrIdle /\ SearchIdle /\ CfgIdle
    /\ blobs \in BrowseContainers
    /\ lpc = "main" /\ browse_path = <<>> /\ choice = <<>> /\ last_step = "none"
    /\ entered_from = <<>> /\ ended_by = "none"

ReplNext ==
    \/ ReplStart
    \/ ReplInterrupt
    \/ ReplQuit
    \/ ReplBack
    \/ ReplJump
    \/ ReplTransfer
    \/ ReplNumber
    \/ ReplInvalid

SpecRepl == ReplInit /\ [][ReplNext]_vars

----------------------------------------------------------------------------
\* Claims about the folder browser.

\* two paths that are the same up to a trailing '/'
SameUpToSlash(a, b) == a = b \/ a = b \o Slash \/ b = a \o Slash

\* a path in the form the navigation keeps: empty or ending with '/'
IsLocation(path) == path = <<>> \/ EndsWith(path, Slash)

\* C22: in browse_folders, 'b' right after a folder was selected by its
\* number returns to the location the folder was entered from (the same path
\* up to a trailing '/'); 'b' at the root leaves the location at the root;
\* after any number selection or 'b' step the current path is empty or ends
\* with '/'; the loop ends only on 'q'.
C22_BrowseNavigation ==
    [][/\ (last_step = "folder" /\ last_step' = "back") =>
              SameUpToSlash(browse_path', entered_from)
       /\ (last_step' = "back" /\ browse_path = <<>>) => browse_path' = <<>>
       /\ last_step' \in {"folder", "file", "back"} => IsLocation(browse_path')
       /\ (lpc = "loop" /\ lpc' = "ended") => (choice' = <<"q">> /\ ended_by' = "q")]_vars

\* the part of C22 about the ways: folder selection and 'b' are inverse, 'b'
\* at the root stays, and both leave a location that is empty or ends with '/'
C22_SelectThenBack ==
    [][/\ (last_step = "folder" /\ last_step' = "back") =>
              SameUpToSlash(browse_path', entered_from)
       /\ (last_step' = "back" /\ browse_path = <<>>) => browse_path' = <<>>
       /\ last_step' \in {"folder", "back"} => IsLocation(browse_path')]_vars

\* a folder was entered from a location below the root and 'b' came back
C22_CameBack ==
    /\ last_step = "back" /\ entered_from # <<>>
    /\ SameUpToSlash(browse_path, entered_from) /\ browse_path # <<>>

\* the loop was left by the ValueError of int(choice)
C22_EndedByValueError == lpc = "ended" /\ ended_by = "ValueError"

\* a file was selected by its number at a location without a trailing '/'
C22_FileAtUnslashedPath == last_step = "file" /\ ~IsLocation(browse_path)

====
